---- MODULE Spec2Model ----
(***************************************************************************)
(* RocksDBStore: the sharded, column-family routing key-value store.       *)
(* Byte strings are sequences of byte values; a column family's content is *)
(* a set of keys (with values where they matter) kept in bytewise order.   *)
(***************************************************************************)
EXTENDS Integers, Sequences, FiniteSets, TLC

VARIABLES
  shards,   \* the sorted keys of every column family (shard) of the iterated prefix
  iters,    \* ShardMergeIteratorImpl::iters: the array of sub-iterators, named by shard
  pos,      \* every sub-iterator's position in its shard; 0 is !Valid()
  it_ret,   \* the value the last iterator call returned
  scan,     \* history: "fwd" since seek_to_first + next..., "bwd" since seek_to_last + prev...
  seen,     \* history: the keys key() showed during the current scan
  np,       \* history: [stage, key] of a next() at key followed by a prev()
  dbiter,   \* CFIteratorImpl::dbiter over one column family holding the keys of
            \* all the shards, given the same calls: its position, 0 is !Valid()
  io_error  \* the sub-iterators the last call moved whose status() is not ok

iter_vars == <<shards, iters, pos, it_ret, scan, seen, np, dbiter, io_error>>

VARIABLES
  cf_handles,              \* RocksDBStore::cf_handles: prefix -> [hash_l, hash_h, handles]
  delete_range_threshold,  \* RocksDBStore::delete_range_threshold
  disableWAL,              \* RocksDBStore::disableWAL
  data,                    \* the engine's content: column family id -> (key -> value)
  bat,                     \* RocksDBTransactionImpl::bat, the rocksdb::WriteBatch
  tx_prefix,               \* the logical prefix the open transactions work on
  txlog,                   \* history: the calls made on the transaction being built
  last                     \* history: [log, before, woptions] of the transaction
                           \* just committed

txn_rest == <<delete_range_threshold, disableWAL, data, bat, tx_prefix, txlog, last>>

txn_vars == <<cf_handles, txn_rest>>

VARIABLES
  compact_queue,       \* RocksDBStore::compact_queue: the list of (start, end) pairs
  compact_queue_stop,  \* RocksDBStore::compact_queue_stop
  thread_started,      \* compact_thread.is_started()
  wpc,                 \* where the compaction thread is: "none", "top", "compacting",
                       \* "waiting" or "done"
  wrange,              \* compact_thread_entry's local range
  wcall,               \* the compaction call the thread has issued and not yet returned from
  cpc,                 \* where close() is: "open", "joining", "unregister",
                       \* "destroy_handles", "delete_db" or "closed"
  logger,              \* RocksDBStore::logger is not null
  db,                  \* RocksDBStore::db is not null
  crashed,             \* the process has ended in a fault
  creq,                \* history: [range, before] of the compact_range_async just run
  chist                \* history: what close() found, what was requested since, and
                       \* the steps close() has taken

VARIABLES
  compact_queue_lock,  \* RocksDBStore::compact_queue_lock: "free", or who holds it:
                       \* "thread", "close" or a caller of compact_range_async
  rpc,                 \* for each caller, where it is in compact_range_async:
                       \* "idle" or "locked"
  rarg,                \* for each caller, the (start, end) of its call
  nthreads             \* the number of threads inside compact_thread_entry

lock_vars == <<compact_queue_lock, rpc, rarg, nthreads>>

compact_vars == <<compact_queue, compact_queue_stop, thread_started, wpc, wrange,
                  wcall, cpc, logger, db, crashed, creq, chist, lock_vars>>

VARIABLES
  sharding_text,         \* do_open's sharding_text, the requested definition
  stored_sharding_text,  \* the content of the sharding_def file
  opc,                   \* where do_open is: "start", "verified", "opened", or where
                         \* it returned an error: "failed" (verify_sharding's
                         \* comparison), "extra", "missing", "create_failed"
  open_ret,              \* what do_open returned
  create_if_missing,     \* do_open's create_if_missing: create_and_open, not open
  rocksdb_cfs,           \* the column families the engine holds besides "default"
  sharding_recreate,     \* the sharding_recreate file holds "1"
  must_close_default_cf, \* RocksDBStore::must_close_default_cf
  merge_ops,             \* RocksDBStore::merge_ops: the list of (prefix, operator)
  mcall,                 \* history: the last set_merge_operator or router Merge call
  cf_merge_operator,     \* cf_opt->merge_operator of the column families of each
                         \* dedicated prefix, as install_cf_mergeop left it
  ohist,                 \* history: [cfs, marker] as do_open found them
  rhist,                 \* history: [ret, text, marker] of the last repair()
  parse_in,              \* the columns the text handed to parse_sharding_def was written from
  parse_out,             \* what parse_sharding_def returned, and what it returned for
                         \* the printed form of that result
  split_call             \* history: the last call of split_key, its arguments and
                         \* what it left

parse_vars == <<parse_in, parse_out, split_call>>

open_rest == <<create_if_missing, rocksdb_cfs, sharding_recreate, must_close_default_cf,
              ohist, rhist, parse_vars>>

merge_vars == <<merge_ops, mcall, cf_merge_operator>>

open_vars == <<sharding_text, stored_sharding_text, opc, open_ret, open_rest, merge_vars>>

vars == <<iter_vars, txn_vars, compact_vars, open_vars>>

----------------------------------------------------------------------------
(* Byte strings *)

\* the byte at position i of a string; the byte after its last reads as NUL
CharAt(text, i) == IF i >= 1 /\ i <= Len(text) THEN text[i] ELSE 0

\* rocksdb::BytewiseComparator / std::string::compare: <0, 0, >0
RECURSIVE Compare(_, _)
Compare(a, b) ==
  IF a = <<>> THEN (IF b = <<>> THEN 0 ELSE -1)
  ELSE IF b = <<>> THEN 1
  ELSE IF a[1] < b[1] THEN -1
  ELSE IF a[1] > b[1] THEN 1
  ELSE Compare(Tail(a), Tail(b))

\* the keys of set S in comparator order, as the engine iterates them
RECURSIVE SortedKeys(_)
SortedKeys(S) ==
  IF S = {} THEN <<>>
  ELSE LET m == CHOOSE x \in S : \A y \in S : Compare(x, y) <= 0
       IN <<m>> \o SortedKeys(S \ {m})

Reverse(s) == [i \in 1..Len(s) |-> s[Len(s) + 1 - i]]

IsPrefix(s, t) == Len(s) <= Len(t) /\ \A i \in 1..Len(s) : s[i] = t[i]

----------------------------------------------------------------------------
(* Bounds of the iterator model *)

\* the largest number of shards of one prefix
MaxShards == 3

\* the keys a prefix may hold
IterKeys == { <<1>>, <<1, 2>>, <<2>>, <<3>> }

\* the bounds lower_bound / upper_bound are called with: a key that may be
\* stored (or absent) with keys on both sides, and the largest one
SeekKeys == { <<1, 2>>, <<3>> }

----------------------------------------------------------------------------
(* rocksdb::Iterator over one column family cf: a position 1..n in the      *)
(* shard's sorted keys, 0 when not Valid()                                  *)

SeekToFirst(cf) == IF Len(shards[cf]) > 0 THEN 1 ELSE 0

SeekToLast(cf) == Len(shards[cf])

\* the first key >= target, else not valid
Seek(cf, target) ==
  LET ge == { i \in 1..Len(shards[cf]) : Compare(shards[cf][i], target) >= 0 }
  IN IF ge = {} THEN 0 ELSE CHOOSE i \in ge : \A j \in ge : i <= j

\* REQUIRES Valid()
IterNext(cf, p) == IF p = Len(shards[cf]) THEN 0 ELSE p + 1

\* REQUIRES Valid()
IterPrev(cf, p) == p - 1

----------------------------------------------------------------------------
(* ShardMergeIteratorImpl. Operators take the array (arr) and the           *)
(* sub-iterators' positions (ps) and give them back.                        *)

IsValid(cf, ps) == ps[cf] # 0

Key(cf, ps) == shards[cf][ps[cf]]

KeyLess(a, b, ps) ==
  IF IsValid(a, ps)
    THEN (IF IsValid(b, ps) THEN Compare(Key(a, ps), Key(b, ps)) < 0 ELSE TRUE)
    ELSE FALSE

Swap(arr, i, j) == [arr EXCEPT ![i] = arr[j], ![j] = arr[i]]

\* std::sort(iters.begin(), iters.end(), keyless): every arrangement that is
\* sorted under keyless; the order of equivalent elements is unspecified
StdSort(arr, ps) ==
  { p \in { [i \in 1..Len(arr) |-> arr[f[i]]] : f \in Permutations(1..Len(arr)) } :
      \A i, j \in 1..Len(p) : i < j => ~KeyLess(p[j], p[i], ps) }

\* valid(), key(): both read iters[0]
CurValid(arr, ps) == IsValid(arr[1], ps)

CurKey(arr, ps) == Key(arr[1], ps)

valid == CurValid(iters, pos)

key == CurKey(iters, pos)

\* seek_to_last, the loop over i = 1 .. size-1 (here 2 .. Len)
RECURSIVE SeekToLastLoop(_, _, _)
SeekToLastLoop(arr, ps, i) ==
  IF i > Len(arr) THEN [arr |-> arr, ps |-> ps]
  ELSE LET sw == IF IsValid(arr[1], ps)
                   THEN IsValid(arr[i], ps) /\ KeyLess(arr[1], arr[i], ps)
                   ELSE IsValid(arr[i], ps)
           a1 == IF sw THEN Swap(arr, 1, i) ELSE arr
           p1 == IF IsValid(a1[i], ps)
                   THEN [ps EXCEPT ![a1[i]] = IterNext(a1[i], ps[a1[i]])]
                   ELSE ps
       IN SeekToLastLoop(a1, p1, i + 1)

\* mutant of BubbleUp: the advanced sub-iterator is left at the front
BubbleUp_NoSwap(arr, ps, i) == arr

\* next(), the "bubble up" loop over i = 0 .. size-2 (here 1 .. Len-1)
RECURSIVE BubbleUp(_, _, _)
BubbleUp(arr, ps, i) ==
  IF i > Len(arr) - 1 THEN arr
  ELSE IF KeyLess(arr[i], arr[i + 1], ps) THEN arr
  ELSE BubbleUp(Swap(arr, i, i + 1), ps, i + 1)

\* next(): [arr, ps, r]
NextResult(arr, ps) ==
  IF IsValid(arr[1], ps)
    THEN LET p1 == [ps EXCEPT ![arr[1]] = IterNext(arr[1], ps[arr[1]])]
         IN [arr |-> BubbleUp(arr, p1, 1), ps |-> p1, r |-> 0]
    ELSE [arr |-> arr, ps |-> ps, r |-> -1]

\* prev() step 1: Prev() on every valid sub-iterator (back to first when that
\* leaves it invalid), SeekToLast() on every invalid one
PrevStep1(arr, ps) ==
  [cf \in DOMAIN ps |->
     IF IsValid(cf, ps)
       THEN (IF IterPrev(cf, ps[cf]) # 0 THEN IterPrev(cf, ps[cf]) ELSE SeekToFirst(cf))
       ELSE SeekToLast(cf)]

\* prev_done, in array order
PrevDone(arr, ps) ==
  LET moved(cf) == IF IsValid(cf, ps) THEN IterPrev(cf, ps[cf]) # 0
                                      ELSE SeekToLast(cf) # 0
  IN SelectSeq(arr, moved)

\* mutant of PrevHighest: the first of prev_done is taken, nothing is undone
PrevHighest_NoLoop(pd, i, highest, ps) == [highest |-> highest, ps |-> ps]

\* prev() steps 2,3: keep the largest of prev_done, Next() on all the others
RECURSIVE PrevHighest(_, _, _, _)
PrevHighest(pd, i, highest, ps) ==
  IF i > Len(pd) THEN [highest |-> highest, ps |-> ps]
  ELSE IF KeyLess(highest, pd[i], ps)
    THEN PrevHighest(pd, i + 1, pd[i],
                     [ps EXCEPT ![highest] = IterNext(highest, ps[highest])])
    ELSE PrevHighest(pd, i + 1, highest,
                     [ps EXCEPT ![pd[i]] = IterNext(pd[i], ps[pd[i]])])

\* prev() step 4: insert highest at the front, shift until highest is picked up
RECURSIVE PrevShift(_, _, _, _)
PrevShift(arr, i, hold, highest) ==
  IF i > Len(arr) THEN arr
  ELSE LET a1 == [arr EXCEPT ![i] = hold]
       IN IF arr[i] = highest THEN a1 ELSE PrevShift(a1, i + 1, arr[i], highest)

\* prev(): [arr, ps, r]
PrevResult(arr, ps) ==
  LET p1 == PrevStep1(arr, ps)
      pd == PrevDone(arr, ps)
  IN IF Len(pd) = 0
       THEN \* there is no previous element
            [arr |-> arr,
             ps  |-> IF IsValid(arr[1], p1)
                       THEN [p1 EXCEPT ![arr[1]] = IterPrev(arr[1], p1[arr[1]])]
                       ELSE p1,
             r   |-> 0]
       ELSE LET h == PrevHighest(pd, 2, pd[1], p1)
            IN [arr |-> PrevShift(arr, 1, h.highest, h.highest), ps |-> h.ps, r |-> 0]

----------------------------------------------------------------------------
(* The parts of the store a specification does not exercise stay as         *)
(* constructed                                                              *)

NoLast == [log |-> <<>>, before |-> <<>>,
           woptions |-> [sync |-> FALSE, disableWAL |-> FALSE]]

NoCall == [fn |-> "none"]
NoRequest == [range |-> <<>>, before |-> <<>>]
NoClose == [found |-> "none", late |-> FALSE, steps |-> <<>>]

\* the threads that call compact_range_async
Callers == {"caller1", "caller2"}

\* nobody holds compact_queue_lock, nobody is inside compact_range_async
LockIdle ==
  /\ compact_queue_lock = "free"
  /\ rpc = [c \in Callers |-> "idle"]
  /\ rarg = [c \in Callers |-> <<>>]
  /\ nthreads = 0

\* the compaction queue and its thread as the constructor leaves them, in an
\* open store
CompactIdle ==
  /\ compact_queue = <<>>
  /\ compact_queue_stop = FALSE
  /\ thread_started = FALSE
  /\ wpc = "none"
  /\ wrange = <<>>
  /\ wcall = NoCall
  /\ cpc = "open"
  /\ logger = TRUE
  /\ db = TRUE
  /\ crashed = FALSE
  /\ creq = NoRequest
  /\ chist = NoClose
  /\ LockIdle

NoOpen == [cfs |-> {}, marker |-> FALSE]
NoRepair == [ret |-> 1, text |-> <<>>, marker |-> FALSE]
NoParse == [stage |-> 0]
NoSplit == [op |-> "none"]
NoMerge == [op |-> "none"]

\* do_open has returned 0
OpenIdle ==
  /\ sharding_text = <<>>
  /\ stored_sharding_text = <<>>
  /\ opc = "opened"
  /\ open_ret = 0
  /\ create_if_missing = FALSE
  /\ rocksdb_cfs = {}
  /\ sharding_recreate = FALSE
  /\ must_close_default_cf = TRUE
  /\ ohist = NoOpen
  /\ rhist = NoRepair
  /\ parse_in = <<>>
  /\ parse_out = NoParse
  /\ split_call = NoSplit
  /\ mcall = NoMerge
  /\ cf_merge_operator = <<>>

TxnRestIdle ==
  /\ delete_range_threshold = 0
  /\ disableWAL = FALSE
  /\ data = <<>>
  /\ bat = <<>>
  /\ tx_prefix = <<>>
  /\ txlog = <<>>
  /\ last = NoLast

TxnIdle ==
  /\ cf_handles = <<>>
  /\ TxnRestIdle


----------------------------------------------------------------------------
(* The iterator's calls as actions                                          *)

NoNextPrev == [stage |-> 0, key |-> <<>>]

----------------------------------------------------------------------------
(* CFIteratorImpl over the column family `keys`, a sorted list: each call    *)
(* takes dbiter's position and gives the new one                             *)

CF_valid(p) == p # 0

CF_key(keys, p) == keys[p]

CF_seek_to_first(keys) == IF Len(keys) > 0 THEN 1 ELSE 0

CF_seek_to_last(keys) == Len(keys)

CF_lower_bound(keys, to) ==
  LET ge == { i \in 1..Len(keys) : Compare(keys[i], to) >= 0 }
  IN IF ge = {} THEN 0 ELSE CHOOSE i \in ge : \A j \in ge : i <= j

CF_next(keys, p) == IF CF_valid(p) THEN (IF p = Len(keys) THEN 0 ELSE p + 1) ELSE p

CF_prev(keys, p) == IF CF_valid(p) THEN p - 1 ELSE p

CF_upper_bound(keys, after) ==
  LET bound(p) == IF CF_valid(p) /\ CF_key(keys, p) = after THEN CF_next(keys, p) ELSE p
  IN bound(CF_lower_bound(keys, after))

\* the column family CFIteratorImpl reads: the keys of all the shards
UnionKeys ==
  SortedKeys(UNION { { shards[cf][i] : i \in 1..Len(shards[cf]) } : cf \in DOMAIN shards })

\* what a scan shows after a call that left the iterator at (arr, ps)
Shown(arr, ps) == IF CurValid(arr, ps) THEN <<CurKey(arr, ps)>> ELSE <<>>

seek_to_first ==
  LET p1 == [cf \in DOMAIN pos |-> SeekToFirst(cf)]
  IN \E arr \in StdSort(iters, p1) :
       /\ iters' = arr
       /\ pos' = p1
       /\ it_ret' = 0
       /\ scan' = "fwd"
       /\ seen' = Shown(arr, p1)
       /\ np' = NoNextPrev
       /\ dbiter' = CF_seek_to_first(UnionKeys)
       /\ io_error' = {}
       /\ UNCHANGED <<shards, txn_vars, compact_vars, open_vars>>

seek_to_last ==
  LET p1 == [cf \in DOMAIN pos |-> SeekToLast(cf)]
      r  == SeekToLastLoop(iters, p1, 2)
  IN /\ iters' = r.arr
     /\ pos' = r.ps
     /\ it_ret' = 0
     /\ scan' = "bwd"
     /\ seen' = Shown(r.arr, r.ps)
     /\ np' = NoNextPrev
     /\ dbiter' = CF_seek_to_last(UnionKeys)
     /\ io_error' = {}
     /\ UNCHANGED <<shards, txn_vars, compact_vars, open_vars>>

lower_bound(to) ==
  LET p1 == [cf \in DOMAIN pos |-> Seek(cf, to)]
  IN \E arr \in StdSort(iters, p1) :
       /\ iters' = arr
       /\ pos' = p1
       /\ it_ret' = 0
       /\ scan' = "none"
       /\ seen' = <<>>
       /\ np' = NoNextPrev
       /\ dbiter' = CF_lower_bound(UnionKeys, to)
       /\ io_error' = {}
       /\ UNCHANGED <<shards, txn_vars, compact_vars, open_vars>>

upper_bound(after) ==
  LET sk == [cf \in DOMAIN pos |-> Seek(cf, after)]
      p1 == [cf \in DOMAIN pos |->
               IF sk[cf] # 0 /\ shards[cf][sk[cf]] = after
                 THEN IterNext(cf, sk[cf]) ELSE sk[cf]]
  IN \E arr \in StdSort(iters, p1) :
       /\ iters' = arr
       /\ pos' = p1
       /\ it_ret' = 0
       /\ scan' = "none"
       /\ seen' = <<>>
       /\ np' = NoNextPrev
       /\ dbiter' = CF_upper_bound(UnionKeys, after)
       /\ io_error' = {}
       /\ UNCHANGED <<shards, txn_vars, compact_vars, open_vars>>

next ==
  LET r == NextResult(iters, pos)
  IN /\ iters' = r.arr
     /\ pos' = r.ps
     /\ it_ret' = r.r
     /\ scan' = IF scan = "fwd" THEN "fwd" ELSE "none"
     /\ seen' = IF scan = "fwd"
                  THEN (IF r.r = 0 THEN seen \o Shown(r.arr, r.ps) ELSE seen)
                  ELSE <<>>
     /\ np' = IF valid THEN [stage |-> 1, key |-> key] ELSE NoNextPrev
     /\ dbiter' = CF_next(UnionKeys, dbiter)
     /\ io_error' = {}
     /\ UNCHANGED <<shards, txn_vars, compact_vars, open_vars>>

prev ==
  LET r == PrevResult(iters, pos)
  IN /\ iters' = r.arr
     /\ pos' = r.ps
     /\ it_ret' = r.r
     /\ scan' = IF scan = "bwd" /\ valid THEN "bwd" ELSE "none"
     /\ seen' = IF scan = "bwd" /\ valid THEN seen \o Shown(r.arr, r.ps) ELSE <<>>
     /\ np' = IF np.stage = 1 THEN [stage |-> 2, key |-> np.key] ELSE NoNextPrev
     /\ dbiter' = CF_prev(UnionKeys, dbiter)
     /\ io_error' = {}
     /\ UNCHANGED <<shards, txn_vars, compact_vars, open_vars>>

\* get_iterator(prefix) over a prefix of n >= 2 shards whose keys were routed to
\* exactly one shard each; NewIterator leaves every sub-iterator unpositioned
InitIter ==
  \E n \in 2..MaxShards : \E asg \in [IterKeys -> 0..n] :
    /\ shards = [cf \in 1..n |-> SortedKeys({ k \in IterKeys : asg[k] = cf })]
    /\ iters = [i \in 1..n |-> i]
    /\ pos = [cf \in 1..n |-> 0]
    /\ it_ret = 0
    /\ scan = "none"
    /\ seen = <<>>
    /\ np = NoNextPrev
    /\ dbiter = 0
    /\ io_error = {}
    /\ TxnIdle
    /\ CompactIdle
    /\ OpenIdle
    /\ merge_ops = <<>>

NextIter ==
  \/ seek_to_first
  \/ seek_to_last
  \/ \E k \in SeekKeys : lower_bound(k)
  \/ \E k \in SeekKeys : upper_bound(k)
  \/ next
  \/ prev

SpecIter == InitIter /\ [][NextIter]_vars

----------------------------------------------------------------------------
(* Claims about the multi-partition iterator                                *)

AllKeys == UNION { { shards[cf][i] : i \in 1..Len(shards[cf]) } : cf \in DOMAIN shards }

SortedUnion == SortedKeys(AllKeys)

StrictlyAscending(s) == \A i \in 1..(Len(s) - 1) : Compare(s[i], s[i + 1]) < 0

StrictlyDescending(s) == \A i \in 1..(Len(s) - 1) : Compare(s[i], s[i + 1]) > 0

\* C1: seek_to_first followed by next() until valid() is false shows every key of
\* every shard exactly once, in strictly ascending order: at every moment of the
\* scan the keys shown so far are a prefix of the sorted union of the shards, the
\* current key is the last one shown, and the scan ends only with all of it shown.
C1_ForwardIteration ==
  scan = "fwd" =>
    /\ IsPrefix(seen, SortedUnion)
    /\ StrictlyAscending(seen)
    /\ valid => (seen # <<>> /\ key = seen[Len(seen)])
    /\ ~valid => seen = SortedUnion

\* a finished forward scan over keys that live in at least two shards
C1_Witness ==
  /\ scan = "fwd" /\ ~valid /\ Len(seen) >= 3
  /\ Cardinality({ cf \in DOMAIN shards : Len(shards[cf]) > 0 }) >= 2

\* C2: seek_to_last followed by prev() until valid() is false shows the reverse
\* of the forward sequence: every key once, strictly descending, then invalid.
C2_BackwardIteration ==
  scan = "bwd" =>
    /\ IsPrefix(seen, Reverse(SortedUnion))
    /\ StrictlyDescending(seen)
    /\ valid => (seen # <<>> /\ key = seen[Len(seen)])
    /\ ~valid => seen = Reverse(SortedUnion)

\* a finished backward scan over keys that live in at least two shards
C2_Witness ==
  /\ scan = "bwd" /\ ~valid /\ Len(seen) >= 3
  /\ Cardinality({ cf \in DOMAIN shards : Len(shards[cf]) > 0 }) >= 2

Interior(k) ==
  /\ k \in AllKeys
  /\ \E a \in AllKeys : Compare(a, k) < 0
  /\ \E b \in AllKeys : Compare(k, b) < 0

\* C3: at any valid position whose key is neither the first nor the last key of
\* the union, next() followed by prev() leaves the iterator valid at the same key.
C3_NextPrevInverse ==
  (np.stage = 2 /\ Interior(np.key)) => (valid /\ key = np.key)

----------------------------------------------------------------------------
(* Keys, column family handles and routing                                  *)

\* A column family handle is the id of its column family; the engine reads
\* a null handle as the default column family, whose id is 0.
nullptr == -1
default_cf == 0
ColumnFamilyId(cf) == IF cf = nullptr THEN 0 ELSE cf

\* prefix, a NUL byte, key
combine_strings(prefix, k) == prefix \o <<0>> \o k

memchr_Last(in, c, i) ==
  IF \E j \in i..Len(in) : in[j] = c
    THEN CHOOSE j \in i..Len(in) : in[j] = c /\ \A l \in (j + 1)..Len(in) : in[l] # c
    ELSE 0

\* memchr(in.c_str(), 0, in.size()) from position i: the first c, 0 for NULL
RECURSIVE memchr(_, _, _)
memchr(in, c, i) ==
  IF i > Len(in) THEN 0
  ELSE IF in[i] = c THEN i
  ELSE memchr(in, c, i + 1)

split_key_into_Clear(in, prefix, k) ==
  IF memchr(in, 0, 1) = 0 THEN [r |-> -22, prefix |-> <<>>, key |-> <<>>]
  ELSE [r |-> 0, prefix |-> SubSeq(in, 1, memchr(in, 0, 1) - 1),
        key |-> SubSeq(in, memchr(in, 0, 1) + 1, Len(in))]

\* split_key(in, &prefix, &key): what it returns and what the two strings
\* hold afterwards; separator is the position of the first NUL byte, 0 for NULL
split_key_into(in, prefix, k) ==
  LET found(separator, prefix_len) ==
        IF separator = 0 THEN [r |-> -22, prefix |-> prefix, key |-> k]
        ELSE IF prefix_len >= Len(in) THEN [r |-> -22, prefix |-> prefix, key |-> k]
        ELSE [r |-> 0,
              prefix |-> SubSeq(in, 1, prefix_len),
              key |-> SubSeq(in, separator + 1, separator + (Len(in) - prefix_len - 1))]
      at(separator) == found(separator, separator - 1)
  IN at(memchr(in, 0, 1))

\* split_key on two empty strings
split_key(in) == split_key_into(in, <<>>, <<>>)

raw_key_is_prefixed(rawkey, prefix) ==
  IF Len(rawkey) > Len(prefix) /\ rawkey[Len(prefix) + 1] = 0
    THEN SubSeq(rawkey, 1, Len(prefix)) = prefix
    ELSE FALSE

Min(a, b) == IF a < b THEN a ELSE b

HashMod == 65536

\* A 16 bit multiplicative string hash stands for the 32 bit rjenkins hash:
\* a pure function of the hashed bytes.
RECURSIVE ceph_str_hash_rjenkins(_, _)
ceph_str_hash_rjenkins(str, length) ==
  IF length = 0 THEN 0
  ELSE (ceph_str_hash_rjenkins(str, length - 1) * 33 + str[length]) % HashMod

U32Max == 2147483647

get_cf_handle_NoLow(prefix, k) ==
  IF prefix \notin DOMAIN cf_handles THEN nullptr
  ELSE LET e == cf_handles[prefix]
       IN IF Len(e.handles) = 1 THEN e.handles[1]
          ELSE LET hash_h == Min(e.hash_h, Len(k))
                   hash == ceph_str_hash_rjenkins(SubSeq(k, 1, hash_h), hash_h)
               IN e.handles[(hash % Len(e.handles)) + 1]

get_cf_handle(prefix, k) ==
  IF prefix \notin DOMAIN cf_handles THEN nullptr
  ELSE LET e == cf_handles[prefix]
       IN IF Len(e.handles) = 1 THEN e.handles[1]
          ELSE LET hash_l == Min(e.hash_l, Len(k))
                   hash_h == Min(e.hash_h, Len(k))
                   hash == ceph_str_hash_rjenkins(
                             SubSeq(k, hash_l + 1, hash_h), hash_h - hash_l)
               IN e.handles[(hash % Len(e.handles)) + 1]

\* the overload taking (const char* key, size_t keylen)
get_cf_handle_len(prefix, k, keylen) ==
  IF prefix \notin DOMAIN cf_handles THEN nullptr
  ELSE LET e == cf_handles[prefix]
       IN IF Len(e.handles) = 1 THEN e.handles[1]
          ELSE LET hash_l == Min(e.hash_l, keylen)
                   hash_h == Min(e.hash_h, keylen)
                   hash == ceph_str_hash_rjenkins(
                             SubSeq(k, hash_l + 1, hash_h), hash_h - hash_l)
               IN e.handles[(hash % Len(e.handles)) + 1]

----------------------------------------------------------------------------
(* The write batch: what each transaction call appends to it                *)

Put(cf, k, v) == [op |-> "Put", cf |-> ColumnFamilyId(cf), key |-> k, value |-> v]
Delete(cf, k) == [op |-> "Delete", cf |-> ColumnFamilyId(cf), key |-> k]
SingleDelete(cf, k) == [op |-> "SingleDelete", cf |-> ColumnFamilyId(cf), key |-> k]
Merge(cf, k, v) == [op |-> "Merge", cf |-> ColumnFamilyId(cf), key |-> k, value |-> v]
DeleteRange_Empty(cf, b, e) ==
  [op |-> "DeleteRange", cf |-> ColumnFamilyId(cf), begin |-> b, end |-> b]

DeleteRange(cf, b, e) ==
  [op |-> "DeleteRange", cf |-> ColumnFamilyId(cf), begin |-> b, end |-> e]

RollbackToSavePoint_All(b, savepoint) == <<>>

\* the batch as it was at SetSavePoint
RollbackToSavePoint(b, savepoint) == SubSeq(b, 1, savepoint)

put_bat(b, cf, k, to_set_bl) == Append(b, Put(cf, k, to_set_bl))

set_NoCombine(b, prefix, k, to_set_bl) == put_bat(b, default_cf, k, to_set_bl)

set_bat(b, prefix, k, to_set_bl) ==
  LET cf == get_cf_handle(prefix, k)
  IN IF cf # nullptr
       THEN put_bat(b, cf, k, to_set_bl)
       ELSE put_bat(b, default_cf, combine_strings(prefix, k), to_set_bl)

set_len_bat(b, prefix, k, keylen, to_set_bl) ==
  LET cf == get_cf_handle_len(prefix, k, keylen)
  IN IF cf # nullptr
       THEN put_bat(b, cf, SubSeq(k, 1, keylen), to_set_bl)
       ELSE put_bat(b, cf, combine_strings(prefix, SubSeq(k, 1, keylen)), to_set_bl)

rmkey_bat(b, prefix, k) ==
  LET cf == get_cf_handle(prefix, k)
  IN IF cf # nullptr
       THEN Append(b, Delete(cf, k))
       ELSE Append(b, Delete(default_cf, combine_strings(prefix, k)))

rmkey_len_bat(b, prefix, k, keylen) ==
  LET cf == get_cf_handle_len(prefix, k, keylen)
  IN IF cf # nullptr
       THEN Append(b, Delete(cf, SubSeq(k, 1, keylen)))
       ELSE Append(b, Delete(default_cf,
                             combine_strings(prefix, SubSeq(k, 1, keylen))))

rm_single_key_bat(b, prefix, k) ==
  LET cf == get_cf_handle(prefix, k)
  IN IF cf # nullptr
       THEN Append(b, SingleDelete(cf, k))
       ELSE Append(b, SingleDelete(default_cf, combine_strings(prefix, k)))

merge_bat(b, prefix, k, to_set_bl) ==
  LET cf == get_cf_handle(prefix, k)
  IN IF cf # nullptr
       THEN Append(b, Merge(cf, k, to_set_bl))
       ELSE Append(b, Merge(default_cf, combine_strings(prefix, k), to_set_bl))

----------------------------------------------------------------------------
(* The engine: column families as ordered maps, Write() of a batch, Get()   *)

MapPut(m, k, v) == [x \in (DOMAIN m) \cup {k} |-> IF x = k THEN v ELSE m[x]]
MapDelete(m, k) == [x \in (DOMAIN m) \ {k} |-> m[x]]
MapDeleteRange(m, b, e) ==
  [x \in {y \in DOMAIN m : ~(Compare(b, y) <= 0 /\ Compare(y, e) < 0)} |-> m[x]]

\* The merge operator registered for the prefixes of this specification
\* keeps the larger value.
mop_merge(existing, operand) == IF existing > operand THEN existing ELSE operand
mop_merge_nonexistent(operand) == operand

\* MergeOperatorLinker::Merge, the operator of a dedicated column family
MergeOperator(m, k, operand) ==
  IF k \in DOMAIN m THEN mop_merge(m[k], operand)
  ELSE mop_merge_nonexistent(operand)

\* A registered operator is named by what it does: "max" keeps the larger
\* value, "sum" adds the operand.
mop_call(mop, has_existing, existing, operand) ==
  IF mop = "max"
    THEN IF has_existing THEN mop_merge(existing, operand)
         ELSE mop_merge_nonexistent(operand)
    ELSE IF has_existing THEN existing + operand ELSE operand

\* p.first.compare(0, p.first.length(), key.data(), p.first.length()) == 0 &&
\* key.data()[p.first.length()] == 0
RouterMatch(prefix, k) ==
  /\ \A i \in 1..Len(prefix) : CharAt(k, i) = prefix[i]
  /\ CharAt(k, Len(prefix) + 1) = 0

RouterLoop_Last(ops, k, i) ==
  LET m == { j \in i..Len(ops) : RouterMatch(ops[j][1], k) }
  IN IF m = {} THEN 0 ELSE CHOOSE j \in m : \A x \in m : x <= j

\* for (auto& p : store.merge_ops): the first registration that matches, 0
\* for none
RECURSIVE RouterLoop(_, _, _)
RouterLoop(ops, k, i) ==
  IF i > Len(ops) THEN 0
  ELSE IF RouterMatch(ops[i][1], k) THEN i
  ELSE RouterLoop(ops, k, i + 1)

\* MergeOperatorRouter::Merge on the default column family: the new value
\* (new_value as passed when no registration matches) and the return value
MergeOperatorRouter_Merge(ops, k, has_existing, existing, value, new_value) ==
  LET i == RouterLoop(ops, k, 1)
  IN [ret |-> TRUE,
      new_value |-> IF i = 0 THEN new_value
                    ELSE mop_call(ops[i][2], has_existing, existing, value)]

\* the engine's merge of an operand into column family cf; it hands the
\* router an empty new_value, 0
EngineMerge(cf, m, k, operand) ==
  IF cf = default_cf
    THEN MergeOperatorRouter_Merge(merge_ops, k, k \in DOMAIN m,
                                   IF k \in DOMAIN m THEN m[k] ELSE 0,
                                   operand, 0).new_value
    ELSE MergeOperator(m, k, operand)

ApplyOp(d, o) ==
  CASE o.op = "Put" -> [d EXCEPT ![o.cf] = MapPut(@, o.key, o.value)]
    [] o.op = "Delete" -> [d EXCEPT ![o.cf] = MapDelete(@, o.key)]
    [] o.op = "SingleDelete" -> [d EXCEPT ![o.cf] = MapDelete(@, o.key)]
    [] o.op = "Merge" ->
         [d EXCEPT ![o.cf] = MapPut(@, o.key, EngineMerge(o.cf, @, o.key, o.value))]
    [] o.op = "DeleteRange" ->
         [d EXCEPT ![o.cf] = MapDeleteRange(@, o.begin, o.end)]

\* rocksdb::DB::Write: the operations of the batch in their order
RECURSIVE Write(_, _, _)
Write(d, b, i) == IF i > Len(b) THEN d ELSE Write(ApplyOp(d, b[i]), b, i + 1)

ENOENT == 2

Get(cf, k) ==
  LET m == data[ColumnFamilyId(cf)]
  IN IF k \in DOMAIN m THEN [r |-> 0, out |-> m[k]] ELSE [r |-> -ENOENT, out |-> 0]

\* where get(prefix, key) looks: column family and engine key
get_where(prefix, k) ==
  LET cf == get_cf_handle(prefix, k)
  IN IF cf # nullptr
       THEN [cf |-> ColumnFamilyId(cf), key |-> k]
       ELSE [cf |-> ColumnFamilyId(default_cf), key |-> combine_strings(prefix, k)]

get(prefix, k) == LET w == get_where(prefix, k) IN Get(w.cf, w.key)

get_len_where(prefix, k, keylen) ==
  LET cf == get_cf_handle_len(prefix, k, keylen)
  IN IF cf # nullptr
       THEN [cf |-> ColumnFamilyId(cf), key |-> SubSeq(k, 1, keylen)]
       ELSE [cf |-> ColumnFamilyId(default_cf),
             key |-> combine_strings(prefix, SubSeq(k, 1, keylen))]

\* get(prefix, set of keys, out): one lookup per key
get_keys_where(prefix, k) ==
  IF prefix \in DOMAIN cf_handles
    THEN [cf |-> ColumnFamilyId(get_cf_handle(prefix, k)), key |-> k]
    ELSE [cf |-> ColumnFamilyId(default_cf), key |-> combine_strings(prefix, k)]

\* rocksdb::Iterator over one column family: its keys in order
new_shard_iterator(cf) == SortedKeys(DOMAIN data[ColumnFamilyId(cf)])

\* Seek(target): the keys at or after target
SeekFrom(keys, target) == SelectSeq(keys, LAMBDA k : Compare(k, target) >= 0)

\* get_iterator(prefix), seek_to_first(), valid()
seek_to_first_valid(prefix) ==
  IF prefix \in DOMAIN cf_handles
    THEN IF Len(cf_handles[prefix].handles) = 1
           THEN Len(new_shard_iterator(cf_handles[prefix].handles[1])) > 0
           ELSE \E i \in 1..Len(cf_handles[prefix].handles) :
                  Len(new_shard_iterator(cf_handles[prefix].handles[i])) > 0
    ELSE LET it == SeekFrom(new_shard_iterator(default_cf), prefix)
         IN Len(it) > 0 /\ raw_key_is_prefixed(it[1], prefix)

----------------------------------------------------------------------------
(* rmkeys_by_prefix and rm_range_keys                                       *)

\* the engine's integers end at 2^31 - 1, which stands for 2^64 - 1
U64Max == 2147483647

\* --cnt on a uint64_t
Decrement(cnt) == IF cnt = 0 THEN U64Max ELSE cnt - 1

\* for (it->seek_to_first(); it->valid() && (--cnt) != 0; it->next())
\*   bat.Delete(default_cf, combine_strings(prefix, it->key()));
\* it walks the default column family from Seek(prefix) and is valid while
\* the raw key is prefixed
RECURSIVE rmkeys_default_loop(_, _, _, _, _)
rmkeys_default_loop(b, prefix, it, i, cnt) ==
  IF ~(i <= Len(it) /\ raw_key_is_prefixed(it[i], prefix))
    THEN [bat |-> b, cnt |-> cnt]
  ELSE IF Decrement(cnt) = 0 THEN [bat |-> b, cnt |-> 0]
  ELSE rmkeys_default_loop(
         Append(b, Delete(default_cf, combine_strings(prefix, split_key(it[i]).key))),
         prefix, it, i + 1, Decrement(cnt))

\* for (it->SeekToFirst(); it->Valid() && (--cnt) != 0; it->Next())
\*   bat.Delete(cf, it->key());
RECURSIVE rmkeys_shard_loop(_, _, _, _, _)
rmkeys_shard_loop(b, cf, it, i, cnt) ==
  IF ~(i <= Len(it)) THEN [bat |-> b, cnt |-> cnt]
  ELSE IF Decrement(cnt) = 0 THEN [bat |-> b, cnt |-> 0]
  ELSE rmkeys_shard_loop(Append(b, Delete(cf, it[i])), cf, it, i + 1, Decrement(cnt))

EndPrefix == <<255, 255, 255, 255>>

\* for (auto cf : p_iter->second.handles) { ... }
RECURSIVE rmkeys_shards(_, _, _)
rmkeys_shards(b, handles, n) ==
  IF n > Len(handles) THEN b
  ELSE LET cf == handles[n]
           savepoint == Len(b)
           l == rmkeys_shard_loop(b, cf, new_shard_iterator(cf), 1,
                                  delete_range_threshold)
       IN IF l.cnt = 0
            THEN rmkeys_shards(
                   Append(RollbackToSavePoint(l.bat, savepoint),
                          DeleteRange(cf, <<>>, EndPrefix)),
                   handles, n + 1)
            ELSE rmkeys_shards(l.bat, handles, n + 1)

rmkeys_by_prefix_bat(b, prefix) ==
  IF prefix \notin DOMAIN cf_handles
    THEN LET savepoint == Len(b)
             it == SeekFrom(new_shard_iterator(default_cf), prefix)
             l == rmkeys_default_loop(b, prefix, it, 1, delete_range_threshold)
         IN IF l.cnt = 0
              THEN Append(RollbackToSavePoint(l.bat, savepoint),
                          DeleteRange(default_cf,
                                      combine_strings(prefix, <<>>),
                                      combine_strings(prefix \o <<1>>, <<>>)))
              ELSE l.bat
    ELSE rmkeys_shards(b, cf_handles[prefix].handles, 1)

\* for (it->lower_bound(start);
\*      it->valid() && Compare(it->key(), end) < 0 && (--cnt) != 0; it->next())
RECURSIVE rm_range_default_loop(_, _, _, _, _, _)
rm_range_default_loop(b, prefix, end, it, i, cnt) ==
  IF ~(i <= Len(it) /\ raw_key_is_prefixed(it[i], prefix))
    THEN [bat |-> b, cnt |-> cnt]
  ELSE IF ~(Compare(split_key(it[i]).key, end) < 0) THEN [bat |-> b, cnt |-> cnt]
  ELSE IF Decrement(cnt) = 0 THEN [bat |-> b, cnt |-> 0]
  ELSE rm_range_default_loop(
         Append(b, Delete(default_cf, combine_strings(prefix, split_key(it[i]).key))),
         prefix, end, it, i + 1, Decrement(cnt))

RECURSIVE rm_range_shard_loop(_, _, _, _, _, _)
rm_range_shard_loop(b, cf, end, it, i, cnt) ==
  IF ~(i <= Len(it)) THEN [bat |-> b, cnt |-> cnt]
  ELSE IF ~(Compare(it[i], end) < 0) THEN [bat |-> b, cnt |-> cnt]
  ELSE IF Decrement(cnt) = 0 THEN [bat |-> b, cnt |-> 0]
  ELSE rm_range_shard_loop(Append(b, Delete(cf, it[i])), cf, end, it, i + 1,
                           Decrement(cnt))

RECURSIVE rm_range_shards(_, _, _, _, _)
rm_range_shards(b, handles, start, end, n) ==
  IF n > Len(handles) THEN b
  ELSE LET cf == handles[n]
           savepoint == Len(b)
           it == SeekFrom(new_shard_iterator(cf), start)
           l == rm_range_shard_loop(b, cf, end, it, 1, delete_range_threshold)
       IN IF l.cnt = 0
            THEN rm_range_shards(
                   Append(RollbackToSavePoint(l.bat, savepoint),
                          DeleteRange(cf, start, end)),
                   handles, start, end, n + 1)
            ELSE rm_range_shards(l.bat, handles, start, end, n + 1)

rm_range_keys_bat(b, prefix, start, end) ==
  IF prefix \notin DOMAIN cf_handles
    THEN LET savepoint == Len(b)
             it == SeekFrom(new_shard_iterator(default_cf),
                            combine_strings(prefix, start))
             l == rm_range_default_loop(b, prefix, end, it, 1,
                                        delete_range_threshold)
         IN IF l.cnt = 0
              THEN Append(RollbackToSavePoint(l.bat, savepoint),
                          DeleteRange(default_cf,
                                      combine_strings(prefix, start),
                                      combine_strings(prefix, end)))
              ELSE l.bat
    ELSE rm_range_shards(b, cf_handles[prefix].handles, start, end, 1)

----------------------------------------------------------------------------
(* Transactions as actions.  A behaviour builds and submits transactions on *)
(* one logical prefix, tx_prefix; the other prefixes hold data that no      *)
(* call addresses.                                                          *)

MaxOps == 2
MaxThreshold == 2

PrefixD == <<68>>        \* a dedicated prefix with one shard
PrefixS == <<83>>        \* a dedicated prefix with two shards
PrefixU == <<85>>        \* an undeclared prefix, kept in the default column family
TxPrefixes == { PrefixD, PrefixS, PrefixU }
\* undeclared neighbours of PrefixU in the default column family
StoredPrefixes == <<PrefixD, PrefixS, <<84>>, PrefixU, <<85, 1>>, <<85, 85>>>>
TxKeys == { <<97>>, <<255, 255, 255, 255>> }
TxKeySeq == << <<97>>, <<255, 255, 255, 255>> >>
TxValues == { 1, 2 }
TxRanges == { << <<>>, <<98>> >>, << <<97>>, <<255, 255, 255, 255, 1>> >> }
ColumnFamilies == 0..3

\* the operator registered for every prefix of the transactions
TxMergeOps == << <<PrefixD, "max">>, <<PrefixS, "max">>, <<PrefixU, "max">> >>

IterIdle ==
  /\ shards = <<>>
  /\ iters = <<>>
  /\ pos = <<>>
  /\ it_ret = 0
  /\ scan = "none"
  /\ seen = <<>>
  /\ np = NoNextPrev
  /\ dbiter = 0
  /\ io_error = {}

\* the batch that stores value 1 under every key of every prefix but p
RECURSIVE StoreOthers(_, _, _, _)
StoreOthers(b, p, i, j) ==
  IF i > Len(StoredPrefixes) THEN b
  ELSE IF j > Len(TxKeySeq) THEN StoreOthers(b, p, i + 1, 1)
  ELSE IF StoredPrefixes[i] = p THEN StoreOthers(b, p, i + 1, 1)
  ELSE StoreOthers(set_bat(b, StoredPrefixes[i], TxKeySeq[j], 1), p, i, j + 1)

\* the directory of a store opened with the sharding "D S(2)"
OpenDirectory ==
     (PrefixD :> [hash_l |-> 0, hash_h |-> U32Max, handles |-> <<1>>])
  @@ (PrefixS :> [hash_l |-> 0, hash_h |-> U32Max, handles |-> <<2, 3>>])

InitTxn ==
  /\ IterIdle
  /\ CompactIdle
  /\ OpenIdle
  /\ merge_ops = TxMergeOps
  /\ cf_handles = OpenDirectory
  /\ delete_range_threshold \in 0..MaxThreshold
  /\ disableWAL = FALSE
  /\ tx_prefix \in TxPrefixes
  /\ bat = <<>>
  /\ txlog = <<>>
  /\ last = NoLast
  /\ data = Write([cf \in ColumnFamilies |-> <<>>], StoreOthers(<<>>, tx_prefix, 1, 1), 1)

TxCall(b, call) ==
  /\ Len(txlog) < MaxOps
  /\ bat' = b
  /\ txlog' = Append(txlog, call)
  /\ last' = NoLast
  /\ UNCHANGED <<iter_vars, cf_handles, delete_range_threshold, disableWAL, data,
                 tx_prefix, compact_vars, open_vars>>

set(prefix, k, to_set_bl) ==
  TxCall(set_bat(bat, prefix, k, to_set_bl),
         [op |-> "set", prefix |-> prefix, key |-> k, value |-> to_set_bl])

set_len(prefix, k, keylen, to_set_bl) ==
  TxCall(set_len_bat(bat, prefix, k, keylen, to_set_bl),
         [op |-> "set", prefix |-> prefix, key |-> SubSeq(k, 1, keylen),
          value |-> to_set_bl])

rmkey(prefix, k) ==
  TxCall(rmkey_bat(bat, prefix, k), [op |-> "rmkey", prefix |-> prefix, key |-> k])

rm_single_key(prefix, k) ==
  TxCall(rm_single_key_bat(bat, prefix, k),
         [op |-> "rm_single_key", prefix |-> prefix, key |-> k])

merge(prefix, k, to_set_bl) ==
  TxCall(merge_bat(bat, prefix, k, to_set_bl),
         [op |-> "merge", prefix |-> prefix, key |-> k, value |-> to_set_bl])

rmkeys_by_prefix(prefix) ==
  TxCall(rmkeys_by_prefix_bat(bat, prefix),
         [op |-> "rmkeys_by_prefix", prefix |-> prefix])

rm_range_keys(prefix, start, end) ==
  TxCall(rm_range_keys_bat(bat, prefix, start, end),
         [op |-> "rm_range_keys", prefix |-> prefix, start |-> start, end |-> end])

\* submit_common: woptions.disableWAL = disableWAL; db->Write(woptions, &bat);
\* the next transaction starts empty
submit_common(woptions_sync) ==
  /\ txlog # <<>>
  /\ data' = Write(data, bat, 1)
  /\ last' = [log |-> txlog, before |-> data,
              woptions |-> [sync |-> woptions_sync, disableWAL |-> disableWAL]]
  /\ bat' = <<>>
  /\ txlog' = <<>>
  /\ UNCHANGED <<iter_vars, cf_handles, delete_range_threshold, disableWAL, tx_prefix,
                 compact_vars, open_vars>>

sync_Always == TRUE

\* woptions.sync = !disableWAL
sync_unless_disabled == ~disableWAL

\* woptions.sync = false
submit_transaction == submit_common(FALSE)

\* if disableWAL, sync can't set
submit_transaction_sync == submit_common(sync_unless_disabled)

NextTxn ==
  \/ \E k \in TxKeys, v \in TxValues : set(tx_prefix, k, v)
  \/ \E k \in TxKeys : set_len(tx_prefix, k \o <<0>>, Len(k), 2)
  \/ \E k \in TxKeys : rmkey(tx_prefix, k)
  \/ \E k \in TxKeys : rm_single_key(tx_prefix, k)
  \/ \E k \in TxKeys : merge(tx_prefix, k, 2)
  \/ rmkeys_by_prefix(tx_prefix)
  \/ \E r \in TxRanges : rm_range_keys(tx_prefix, r[1], r[2])
  \/ submit_transaction

SpecTxn == InitTxn /\ [][NextTxn]_vars

\* the transactions of one threshold, committed with either submit call, on
\* a store with or without the write-ahead log
InitSubmit ==
  /\ IterIdle
  /\ CompactIdle
  /\ OpenIdle
  /\ merge_ops = TxMergeOps
  /\ cf_handles = OpenDirectory
  /\ delete_range_threshold = 1
  /\ disableWAL \in BOOLEAN
  /\ tx_prefix \in TxPrefixes
  /\ bat = <<>>
  /\ txlog = <<>>
  /\ last = NoLast
  /\ data = Write([cf \in ColumnFamilies |-> <<>>], StoreOthers(<<>>, tx_prefix, 1, 1), 1)

NextSubmit == NextTxn \/ submit_transaction_sync

SpecSubmit == InitSubmit /\ [][NextSubmit]_vars

----------------------------------------------------------------------------
(* Properties of committed transactions                                     *)

Committed == txlog = <<>> /\ last.log # <<>>

\* the value a store content d holds at the place w, 0 for none
ValueAt(d, w) == IF w.key \in DOMAIN d[w.cf] THEN d[w.cf][w.key] ELSE 0

\* C4: after a transaction that holds only rmkeys_by_prefix(p) is committed,
\* get_iterator(p) is not valid at seek_to_first: no key of p remains,
\* whatever the keys of p were, below or from delete_range_threshold on,
\* for a dedicated prefix of one or more shards and for an undeclared one.
C4_PrefixRemoved ==
  (Committed /\ Len(last.log) = 1 /\ last.log[1].op = "rmkeys_by_prefix")
    => ~seek_to_first_valid(last.log[1].prefix)

InRange(c, k) ==
  \/ c.op = "rmkeys_by_prefix"
  \/ c.op = "rm_range_keys" /\ Compare(c.start, k) <= 0 /\ Compare(k, c.end) < 0

\* C5: the calls of one transaction take effect in the order they were made:
\* set(p, k, v) followed by rmkeys_by_prefix(p), or by rm_range_keys(p, start,
\* end) with start <= k < end, leaves k absent after the commit when k was not
\* stored before, on the key by key path and on the range delete path.
\* Stated for the keys k below EndPrefix, which a range delete of a whole
\* column family covers.
C5_ProgramOrder ==
  (/\ Committed
   /\ Len(last.log) = 2
   /\ last.log[1].op = "set"
   /\ Compare(last.log[1].key, EndPrefix) < 0
   /\ ValueAt(last.before, get_where(last.log[1].prefix, last.log[1].key)) = 0
   /\ InRange(last.log[2], last.log[1].key))
    => get(last.log[1].prefix, last.log[1].key).r = -ENOENT

Target(b) == [cf |-> b[1].cf, key |-> b[1].key]

\* the places the calls on (prefix, k) write to or read from
Routes(prefix, k) ==
  { Target(set_bat(<<>>, prefix, k, 1)),
    Target(set_len_bat(<<>>, prefix, k \o <<0>>, Len(k), 1)),
    Target(merge_bat(<<>>, prefix, k, 1)),
    Target(rmkey_bat(<<>>, prefix, k)),
    Target(rmkey_len_bat(<<>>, prefix, k \o <<0>>, Len(k))),
    Target(rm_single_key_bat(<<>>, prefix, k)),
    get_where(prefix, k),
    get_len_where(prefix, k \o <<0>>, Len(k)),
    get_keys_where(prefix, k) }

RoutePrefixes == { StoredPrefixes[i] : i \in 1..Len(StoredPrefixes) }
RouteKeys == TxKeys \cup { <<>>, <<0>>, <<97, 98>>, <<98, 97>> }

LastCall == last.log[Len(last.log)]

\* C6: set, merge, rmkey, rm_single_key and get of one (prefix, key) address
\* the same column family and the same engine key, for dedicated prefixes of
\* one and of several shards and for undeclared prefixes (for every prefix and
\* key in the store as opened, whose directory the transactions do not change,
\* and for the prefix and key of every committed set); after a committed
\* transaction whose last call is set(prefix, key, v), get(prefix, key) returns
\* v and what every other prefix stores under any key is as before.
C6_ReadYourWrites ==
  /\ (cf_handles # <<>> /\ txlog = <<>> /\ last = NoLast) =>
       \A p \in RoutePrefixes, k \in RouteKeys : Cardinality(Routes(p, k)) = 1
  /\ (Committed /\ LastCall.op = "set") =>
       /\ Cardinality(Routes(LastCall.prefix, LastCall.key)) = 1
       /\ get(LastCall.prefix, LastCall.key) = [r |-> 0, out |-> LastCall.value]
       /\ \A q \in RoutePrefixes \ {LastCall.prefix}, k \in RouteKeys :
            ValueAt(data, get_where(q, k)) = ValueAt(last.before, get_where(q, k))

C6_Witness ==
  /\ Committed
  /\ Len(last.log) = 2
  /\ LastCall = [op |-> "set", prefix |-> PrefixS,
                 key |-> <<255, 255, 255, 255>>, value |-> 2]
  /\ ValueAt(last.before, get_where(PrefixS, <<255, 255, 255, 255>>)) = 1
  /\ ValueAt(data, get_where(PrefixS, <<97>>)) = 1
  /\ get_where(PrefixS, <<97>>).cf # get_where(PrefixS, <<255, 255, 255, 255>>).cf

----------------------------------------------------------------------------
(* The compaction queue, its thread and close()                             *)

MaxQueue == 2

CompactKeys == { <<>>, <<97>>, <<98>> }
\* the requests made: start <= end
CompactRanges == { r \in CompactKeys \X CompactKeys : Compare(r[1], r[2]) <= 0 }

Erase(q, i) == SubSeq(q, 1, i - 1) \o SubSeq(q, i + 1, Len(q))

MergeStart_KeepEnd(start, end, p) == <<start, end>>

\* new region crosses start of existing range: select right bound that is bigger
MergeStart(start, end, p) ==
  <<start, IF Compare(end, p[2]) > 0 THEN end ELSE p[2]>>

MergeEnd_KeepNew(start, end, p) == <<start, end>>

\* new region crosses end of existing range
MergeEnd(start, end, p) == <<p[1], end>>

\* while (p != compact_queue.end()) { ... ++p; }
\* After erase(p) the iterator p is not the end of the list.
RECURSIVE async_loop(_, _, _, _)
async_loop(q, start, end, p) ==
  IF p > Len(q) THEN [queue |-> q, dup |-> FALSE, at_end |-> TRUE]
  ELSE IF q[p][1] = start /\ q[p][2] = end
    THEN [queue |-> q, dup |-> TRUE, at_end |-> FALSE]
  ELSE IF Compare(start, q[p][1]) <= 0 /\ Compare(q[p][1], end) <= 0
    THEN [queue |-> Erase(Append(q, MergeStart(start, end, q[p])), p),
          dup |-> FALSE, at_end |-> FALSE]
  ELSE IF Compare(start, q[p][2]) <= 0 /\ Compare(q[p][2], end) <= 0
    THEN [queue |-> Erase(Append(q, MergeEnd(start, end, q[p])), p),
          dup |-> FALSE, at_end |-> FALSE]
  ELSE async_loop(q, start, end, p + 1)

\* the queue compact_range_async(start, end) leaves
async_queue(q, start, end) ==
  LET l == async_loop(q, start, end, 1)
  IN IF l.at_end THEN Append(l.queue, <<start, end>>) ELSE l.queue

notify_none(w) == w

\* compact_queue_cond.notify_all(): a waiting thread becomes runnable
notify_all(w) == IF w = "waiting" THEN "top" ELSE w

\* the call the thread makes for a range
CompactCall(range) ==
  IF range[1] = <<>> /\ range[2] = <<>>
    THEN [fn |-> "compact"]
    ELSE [fn |-> "compact_range", start |-> range[1], end |-> range[2]]

Requested == [chist EXCEPT !.late = chist.late \/ cpc # "open"]

\* a step of close(), with the handle it destroys
Step(name, handle) == [step |-> name, handle |-> handle]

\* for (auto& p : cf_handles) for (i < p.second.handles.size()): the handles
\* in the order close() destroys them
RECURSIVE DestroyHandles(_, _, _)
DestroyHandles(dir, prefixes, i) ==
  IF i > Len(prefixes) THEN <<>>
  ELSE [j \in 1..Len(dir[prefixes[i]].handles) |->
          Step("DestroyColumnFamilyHandle", <<dir[prefixes[i]].handles[j]>>)]
       \o DestroyHandles(dir, prefixes, i + 1)

\* compact_range_async between taking compact_queue_lock and releasing it.
\* On the paths that change the queue it uses logger; with logger null that
\* call either faults or goes through.
async_critical(start, end) ==
  /\ ~crashed
  /\ Len(async_queue(compact_queue, start, end)) <= MaxQueue
  /\ IF async_loop(compact_queue, start, end, 1).dup
       THEN /\ creq' = [range |-> <<start, end>>, before |-> compact_queue]
            /\ chist' = Requested
            /\ UNCHANGED <<compact_queue, compact_queue_stop, thread_started, wpc,
                           wrange, wcall, cpc, logger, db, crashed>>
       ELSE \/ /\ compact_queue' = async_queue(compact_queue, start, end)
               /\ creq' = [range |-> <<start, end>>, before |-> compact_queue]
               /\ chist' = Requested
               /\ IF ~thread_started
                    THEN thread_started' = TRUE /\ wpc' = "top"
                    ELSE thread_started' = thread_started /\ wpc' = notify_all(wpc)
               /\ UNCHANGED <<compact_queue_stop, wrange, wcall, cpc, logger, db,
                              crashed>>
            \/ /\ ~logger
               /\ crashed' = TRUE
               /\ UNCHANGED <<compact_queue, compact_queue_stop, thread_started, wpc,
                              wrange, wcall, cpc, logger, db, creq, chist>>
  /\ UNCHANGED <<iter_vars, txn_vars, open_vars>>

\* compact_range_async runs under compact_queue_lock from its first to its
\* last statement
compact_range_async(start, end) ==
  /\ async_critical(start, end)
  /\ UNCHANGED lock_vars

\* compact_thread_entry while it holds compact_queue_lock: the thread exits,
\* or pops the front entry and calls the compaction, or waits
thread_critical ==
  /\ ~crashed
  /\ wpc = "top"
  /\ creq' = NoRequest
  /\ IF compact_queue_stop
       THEN /\ wpc' = "done"
            /\ UNCHANGED <<compact_queue, wrange, wcall, crashed>>
     ELSE IF compact_queue # <<>>
       THEN \/ /\ wrange' = Head(compact_queue)
               /\ compact_queue' = Tail(compact_queue)
               /\ wcall' = CompactCall(Head(compact_queue))
               /\ wpc' = "compacting"
               /\ UNCHANGED crashed
            \/ /\ ~logger
               /\ crashed' = TRUE
               /\ UNCHANGED <<compact_queue, wrange, wcall, wpc>>
       ELSE /\ wpc' = "waiting"
            /\ UNCHANGED <<compact_queue, wrange, wcall, crashed>>
  /\ UNCHANGED <<compact_queue_stop, thread_started, cpc, logger, db, chist>>
  /\ UNCHANGED <<iter_vars, txn_vars, open_vars>>

\* compact_thread_entry from taking compact_queue_lock to releasing it
compact_thread_entry ==
  /\ thread_critical
  /\ UNCHANGED lock_vars

\* compact() or compact_range() returns; l.lock(); continue.  A call on a
\* deleted db either faults or returns.
compact_return ==
  /\ ~crashed
  /\ wpc = "compacting"
  /\ creq' = NoRequest
  /\ \/ /\ wpc' = "top"
        /\ wrange' = <<>>
        /\ wcall' = NoCall
        /\ UNCHANGED crashed
     \/ /\ ~db
        /\ crashed' = TRUE
        /\ UNCHANGED <<wpc, wrange, wcall>>
  /\ UNCHANGED <<compact_queue, compact_queue_stop, thread_started, cpc, logger, db,
                 chist, lock_vars>>
  /\ UNCHANGED <<iter_vars, txn_vars, open_vars>>

\* compact_queue_cond.wait(l) may return without a notify
spurious_wakeup ==
  /\ ~crashed
  /\ wpc = "waiting"
  /\ wpc' = "top"
  /\ creq' = NoRequest
  /\ UNCHANGED <<compact_queue, compact_queue_stop, thread_started, wrange, wcall,
                 cpc, logger, db, crashed, chist, lock_vars>>
  /\ UNCHANGED <<iter_vars, txn_vars, open_vars>>

join_NoWait == TRUE

\* compact_thread.join() returns once the thread has left compact_thread_entry
join_returns == wpc = "done"

\* close() while it holds compact_queue_lock
close_critical ==
  /\ ~crashed
  /\ cpc = "open"
  /\ creq' = NoRequest
  /\ IF thread_started
       THEN /\ compact_queue_stop' = TRUE
            /\ wpc' = notify_all(wpc)
            /\ cpc' = "joining"
            /\ chist' = [found |-> "started", late |-> FALSE,
                         steps |-> <<Step("stop", <<>>)>>]
       ELSE /\ cpc' = "unregister"
            /\ chist' = [found |-> "not_started", late |-> FALSE, steps |-> <<>>]
            /\ UNCHANGED <<compact_queue_stop, wpc>>
  /\ UNCHANGED <<compact_queue, thread_started, wrange, wcall, logger, db, crashed>>
  /\ UNCHANGED <<iter_vars, txn_vars, open_vars>>

\* close(): compact_queue_lock.lock() ... compact_queue_lock.unlock()
close_stop_thread ==
  /\ close_critical
  /\ UNCHANGED lock_vars

close_join ==
  /\ ~crashed
  /\ cpc = "joining"
  /\ join_returns
  /\ thread_started' = FALSE
  /\ cpc' = "unregister"
  /\ creq' = NoRequest
  /\ chist' = [chist EXCEPT !.steps = Append(@, Step("join", <<>>))]
  /\ UNCHANGED lock_vars
  /\ UNCHANGED <<compact_queue, compact_queue_stop, wpc, wrange, wcall, logger, db,
                 crashed>>
  /\ UNCHANGED <<iter_vars, txn_vars, open_vars>>

\* delete logger; logger = nullptr
close_unregister ==
  /\ ~crashed
  /\ cpc = "unregister"
  /\ logger' = FALSE
  /\ cpc' = "destroy_handles"
  /\ creq' = NoRequest
  /\ chist' = [chist EXCEPT !.steps = IF logger THEN Append(@, Step("unregister", <<>>))
                                      ELSE @]
  /\ UNCHANGED lock_vars
  /\ UNCHANGED <<compact_queue, compact_queue_stop, thread_started, wpc, wrange,
                 wcall, db, crashed>>
  /\ UNCHANGED <<iter_vars, txn_vars, open_vars>>

close_default_Always == TRUE

\* if (must_close_default_cf)
close_default_cf == must_close_default_cf

\* DestroyColumnFamilyHandle for every handle; cf_handles.clear(); the
\* default handle if must_close_default_cf
close_destroy_handles ==
  /\ ~crashed
  /\ cpc = "destroy_handles"
  /\ cf_handles' = <<>>
  /\ must_close_default_cf' = FALSE
  /\ cpc' = "delete_db"
  /\ UNCHANGED lock_vars
  /\ creq' = NoRequest
  /\ chist' = [chist EXCEPT !.steps =
                 @ \o DestroyHandles(cf_handles, SortedKeys(DOMAIN cf_handles), 1)
                   \o IF close_default_cf
                        THEN <<Step("DestroyColumnFamilyHandle(default_cf)", <<>>)>>
                        ELSE <<>>]
  /\ UNCHANGED <<compact_queue, compact_queue_stop, thread_started, wpc, wrange,
                 wcall, logger, db, crashed>>
  /\ UNCHANGED <<iter_vars, txn_rest, sharding_text, stored_sharding_text, opc,
                 open_ret, create_if_missing, rocksdb_cfs, sharding_recreate, ohist,
                 rhist, parse_vars, merge_vars>>

\* delete db; db = nullptr
close_delete_db ==
  /\ ~crashed
  /\ cpc = "delete_db"
  /\ db' = FALSE
  /\ cpc' = "closed"
  /\ creq' = NoRequest
  /\ chist' = [chist EXCEPT !.steps = Append(@, Step("delete db", <<>>))]
  /\ UNCHANGED lock_vars
  /\ UNCHANGED <<compact_queue, compact_queue_stop, thread_started, wpc, wrange,
                 wcall, logger, crashed>>
  /\ UNCHANGED <<iter_vars, txn_vars, open_vars>>

InitCompact ==
  /\ IterIdle
  /\ TxnRestIdle
  /\ cf_handles = OpenDirectory
  /\ CompactIdle
  /\ OpenIdle
  /\ merge_ops = <<>>

NextCompact ==
  \/ \E r \in CompactRanges : compact_range_async(r[1], r[2])
  \/ compact_thread_entry
  \/ compact_return
  \/ spurious_wakeup
  \/ close_stop_thread
  \/ close_join
  \/ close_unregister
  \/ close_destroy_handles
  \/ close_delete_db

SpecCompact == InitCompact /\ [][NextCompact]_vars

\* the operating system schedules the compaction thread: a runnable thread
\* runs, a compaction call returns
SpecCompactFair ==
  /\ InitCompact
  /\ [][NextCompact]_vars
  /\ WF_vars(compact_thread_entry)
  /\ WF_vars(compact_return)

----------------------------------------------------------------------------
(* Properties of the compaction queue                                       *)

\* close() has destroyed the column family handles or deleted the db
Destroying == cpc \in {"delete_db", "closed"}

\* C7 as stated: no compaction call of the thread starts or is running once
\* close() has begun to destroy the column family handles or the db, in every
\* interleaving of compact_range_async, the thread and close(), with requests
\* arriving while or after close() runs and with close() finding no thread.
C7_NoCompactionWhileDestroying == Destroying => wpc # "compacting"

\* C7, amended: no compaction call of the thread starts or is running once
\* close() has begun to destroy the column family handles or the db, when
\* close() found the thread started (whatever is requested afterwards), or
\* when no compact_range_async is called once close() has begun.
C7_NoCompactionAfterJoin ==
  (Destroying /\ (chist.found = "started" \/ ~chist.late)) => wpc # "compacting"

C7_Witness ==
  /\ cpc = "closed"
  /\ chist.found = "started"
  /\ chist.late
  /\ compact_queue # <<>>
  /\ wpc = "done"
  /\ ~crashed

Count(q, x) == Cardinality({i \in 1..Len(q) : q[i] = x})

Overlaps(start, end, x) ==
  \/ Compare(start, x[1]) <= 0 /\ Compare(x[1], end) <= 0
  \/ Compare(start, x[2]) <= 0 /\ Compare(x[2], end) <= 0

FirstOverlap(q, start, end) ==
  CHOOSE i \in 1..Len(q) :
    /\ Overlaps(start, end, q[i])
    /\ \A j \in 1..(i - 1) : ~Overlaps(start, end, q[j])

Union(start, end, x) ==
  << IF Compare(start, x[1]) <= 0 THEN start ELSE x[1],
     IF Compare(end, x[2]) >= 0 THEN end ELSE x[2] >>

\* q with its first entry that overlaps replaced by the union, as a queue
ReplaceFirstOverlap(q, start, end) ==
  [q EXCEPT ![FirstOverlap(q, start, end)] = Union(start, end, @)]

SameEntries(q1, q2) ==
  /\ Len(q1) = Len(q2)
  /\ \A i \in 1..Len(q1) : Count(q1, q1[i]) = Count(q2, q1[i])

Open == cpc = "open"

InQueue(x) == \E i \in 1..Len(compact_queue) : compact_queue[i] = x

\* C9 as stated: under fair scheduling and while close() is not called, every
\* entry in the compaction queue is eventually taken from the front and
\* issued as one compaction call: compact() when both bounds are empty,
\* compact_range() otherwise.
C9_EveryEntryIssued ==
  \A x \in CompactRanges :
    (InQueue(x) /\ Open) ~> ((wrange = x /\ wcall = CompactCall(x)) \/ ~Open)

\* C9, amended: under fair scheduling of the thread and while close() is not
\* called, a non-empty queue leads to the thread taking the entry at the
\* front and issuing it as one call, compact() when both bounds are empty and
\* compact_range() otherwise; the thread waits only with the queue empty, and
\* between calls it has no call outstanding.  An entry that a later request
\* merges is issued as part of the union.
C9_QueueDrained ==
  /\ [](wpc = "waiting" => compact_queue = <<>>)
  /\ []((wpc = "compacting") <=> (wcall # NoCall))
  /\ [](wpc = "compacting" => wcall = CompactCall(wrange))
  /\ (compact_queue # <<>> /\ Open) ~> (wpc = "compacting" \/ ~Open)
  /\ (compact_queue = <<>> /\ wpc = "top" /\ Open) ~> (wpc = "waiting" \/ compact_queue # <<>> \/ ~Open)

C9_Witness ==
  /\ Open
  /\ wpc = "compacting"
  /\ wcall = [fn |-> "compact"]
  /\ wrange = << <<>>, <<>> >>
  /\ compact_queue = << << <<97>>, <<98>> >> >>

----------------------------------------------------------------------------
(* parse_sharding_def and verify_sharding.  A text is the sequence of its   *)
(* character codes; the character after its last is the terminating NUL.    *)

\* std::string_view::find within text[from..to]; 0 is npos
RECURSIVE Find(_, _, _, _)
Find(text, c, from, to) ==
  IF from > to THEN 0
  ELSE IF text[from] = c THEN from
  ELSE Find(text, c, from + 1, to)

IsDigit(c) == c >= 48 /\ c <= 57

RECURSIVE SkipSpace(_, _)
SkipSpace(text, i) == IF CharAt(text, i) = 32 THEN SkipSpace(text, i + 1) ELSE i

RECURSIVE Digits(_, _, _)
Digits(text, i, acc) ==
  IF IsDigit(CharAt(text, i))
    THEN Digits(text, i + 1, acc * 10 + (CharAt(text, i) - 48))
    ELSE [val |-> acc, end |-> i]

strtol_OneDigit(text, nptr) ==
  IF IsDigit(CharAt(text, nptr))
    THEN [val |-> CharAt(text, nptr) - 48, end |-> nptr + 1]
    ELSE [val |-> 0, end |-> nptr]

\* strtol(nptr, &endptr, 10): white space, a sign, digits; endptr = nptr
\* when there is no digit
strtol(text, nptr) ==
  LET number(sign, j, d) ==
        IF d.end = j THEN [val |-> 0, end |-> nptr]
        ELSE [val |-> IF sign = 45 THEN 0 - d.val ELSE d.val, end |-> d.end]
      digits(sign, j) == number(sign, j, Digits(text, j, 0))
      signed(i, sign) == digits(sign, IF sign = 45 \/ sign = 43 THEN i + 1 ELSE i)
      spaces(i) == signed(i, CharAt(text, i))
  IN spaces(SkipSpace(text, nptr))

\* a long stored in a size_t or a uint32_t
Unsigned(v, max) == IF v < 0 THEN max + (v + 1) ELSE v

ParseError == [error |-> TRUE, shard_cnt |-> 0, l_bound |-> 0, h_bound |-> 0]

\* the part of parse_sharding_def after '(': shard_cnt [',' l_bound '-' [h_bound]] ')'
parse_shards(text, nptr) ==
  LET after_h(cnt, l, h) ==
        IF CharAt(text, h.end) # 41 THEN ParseError
        ELSE [error |-> FALSE,
              shard_cnt |-> Unsigned(cnt.val, U64Max),
              l_bound |-> Unsigned(l.val, U32Max),
              h_bound |-> IF h.end = l.end + 1 THEN U32Max
                          ELSE Unsigned(h.val, U32Max)]
      after_l(cnt, l) ==
        IF l.end = cnt.end + 1 THEN ParseError
        ELSE IF CharAt(text, l.end) # 45 THEN ParseError
        ELSE after_h(cnt, l, strtol(text, l.end + 1))
      after_cnt(cnt) ==
        IF cnt.end = nptr THEN ParseError
        ELSE IF CharAt(text, cnt.end) = 44
          THEN after_l(cnt, strtol(text, cnt.end + 1))
        ELSE IF CharAt(text, cnt.end) # 41 THEN ParseError
        ELSE [error |-> FALSE, shard_cnt |-> Unsigned(cnt.val, U64Max),
              l_bound |-> 0, h_bound |-> U32Max]
  IN after_cnt(strtol(text, nptr))

ColumnFamily(name, shard_cnt, options, hash_l, hash_h) ==
  [name |-> name, shard_cnt |-> shard_cnt, options |-> options,
   hash_l |-> hash_l, hash_h |-> hash_h]

\* while (!text_def.empty()) { ... }; text_def is text from `from` on
RECURSIVE parse_loop(_, _, _)
parse_loop(text, from, sharding_def) ==
  IF from > Len(text) THEN [ok |-> TRUE, sharding_def |-> sharding_def]
  ELSE
    LET spos == Find(text, 32, from, Len(text))
        cend == IF spos = 0 THEN Len(text) ELSE spos - 1
        rest == IF spos = 0 THEN Len(text) + 1 ELSE spos + 1
        eqpos == Find(text, 61, from, cend)
        options == IF eqpos = 0 THEN <<>> ELSE SubSeq(text, eqpos + 1, cend)
        dend == IF eqpos = 0 THEN cend ELSE eqpos - 1
        bpos == Find(text, 40, from, dend)
    IN IF bpos = 0
         THEN parse_loop(text, rest,
                Append(sharding_def,
                       ColumnFamily(SubSeq(text, from, dend), 1, options, 0, U32Max)))
         ELSE LET sharded(r) ==
                    IF r.error THEN [ok |-> FALSE, sharding_def |-> sharding_def]
                    ELSE parse_loop(text, rest,
                           Append(sharding_def,
                                  ColumnFamily(SubSeq(text, from, bpos - 1), r.shard_cnt,
                                               options, r.l_bound, r.h_bound)))
              IN sharded(parse_shards(text, bpos + 1))

parse_sharding_def(text_def) == parse_loop(text_def, 1, <<>>)

\* std::sort by name: the permutations that leave no name before a smaller
\* one; which of them std::sort takes is fixed by the sequence of names
SortPerms(def) ==
  { q \in Permutations(1..Len(def)) :
      \A i \in 1..(Len(def) - 1) : Compare(def[q[i + 1]].name, def[q[i]].name) >= 0 }

Permuted(def, q) == [i \in 1..Len(def) |-> def[q[i]]]

SortByName(def) == { Permuted(def, q) : q \in SortPerms(def) }

Names(def) == [i \in 1..Len(def) |-> def[i].name]

ColumnsDiffer_NoShardCnt(a, b) ==
  a.name # b.name \/ a.hash_l # b.hash_l \/ a.hash_h # b.hash_h

ColumnsDiffer(a, b) ==
  a.name # b.name \/ a.shard_cnt # b.shard_cnt \/ a.hash_l # b.hash_l \/ a.hash_h # b.hash_h

\* bool match after the comparison of the two sorted definitions
Match(sharding_def, stored_sharding_def) ==
  IF Len(sharding_def) # Len(stored_sharding_def) THEN FALSE
  ELSE \A i \in 1..Len(sharding_def) :
         ~ColumnsDiffer(sharding_def[i], stored_sharding_def[i])

EIO == 5
EINVAL == 22

\* std::to_string, operator<< of an unsigned number: its decimal digits
RECURSIVE to_string(_)
to_string(j) ==
  IF j < 10 THEN <<48 + j>> ELSE to_string(j \div 10) \o <<48 + (j % 10)>>

\* the name of the column family of shard j of a column: name, or name-j
cf_name(column, j) ==
  IF column.shard_cnt = 1 THEN column.name ELSE column.name \o <<45>> \o to_string(j)

\* the shards of the columns of a definition in the order the loops over
\* columns and shard indexes visit them: [shard_id, column, name]
RECURSIVE shards_of(_, _, _)
shards_of(def, i, j) ==
  IF i > Len(def) THEN <<>>
  ELSE IF j >= def[i].shard_cnt THEN shards_of(def, i + 1, 0)
  ELSE << [shard_id |-> j, column |-> def[i], name |-> cf_name(def[i], j)] >>
         \o shards_of(def, i, j + 1)

\* add_column_family: the directory after it, and whether its assertions hold
add_column_family(dir, name, hash_l, hash_h, shard_idx, handle) ==
  LET exists == name \in DOMAIN dir
      column == IF exists THEN dir[name]
                ELSE [hash_l |-> hash_l, hash_h |-> hash_h, handles |-> <<>>]
      size == IF Len(column.handles) <= shard_idx THEN shard_idx + 1
              ELSE Len(column.handles)
      handles == [i \in 1..size |->
                    IF i = shard_idx + 1 THEN handle
                    ELSE IF i <= Len(column.handles) THEN column.handles[i]
                    ELSE nullptr]
  IN [ok |-> IF exists THEN hash_l = column.hash_l /\ hash_h = column.hash_h
             ELSE hash_l < hash_h,
      dir |-> (name :> [column EXCEPT !.handles = handles]) @@ dir]

\* add_column_family for every shard of a list, a shard's handle being the
\* name of its column family
RECURSIVE add_shards(_, _, _)
add_shards(dir, list, i) ==
  IF i > Len(list) THEN [ok |-> TRUE, dir |-> dir]
  ELSE LET a == add_column_family(dir, list[i].column.name, list[i].column.hash_l,
                                  list[i].column.hash_h, list[i].shard_id, list[i].name)
       IN IF a.ok THEN add_shards(a.dir, list, i + 1) ELSE [ok |-> FALSE, dir |-> a.dir]

\* the name of the default column family
DefaultName == <<100, 101, 102, 97, 117, 108, 116>>

\* create_shards: CreateColumnFamily and add_column_family for every shard;
\* the engine refuses a name it already holds
RECURSIVE create_shards(_, _, _, _)
create_shards(list, i, cfs, dir) ==
  IF i > Len(list) THEN [r |-> 0, ok |-> TRUE, cfs |-> cfs, dir |-> dir]
  ELSE IF list[i].name \in cfs \cup {DefaultName}
    THEN [r |-> -EINVAL, ok |-> TRUE, cfs |-> cfs, dir |-> dir]
  ELSE LET a == add_column_family(dir, list[i].column.name, list[i].column.hash_l,
                                  list[i].column.hash_h, list[i].shard_id, list[i].name)
       IN IF a.ok THEN create_shards(list, i + 1, cfs \cup {list[i].name}, a.dir)
          ELSE [r |-> 0, ok |-> FALSE, cfs |-> cfs \cup {list[i].name}, dir |-> a.dir]

\* apply_sharding: what it returns, whether no assertion failed, and the
\* column families, directory and sharding_def file it leaves
apply_sharding(text, cfs, stored) ==
  IF text = <<>>
    THEN [r |-> 0, ok |-> TRUE, cfs |-> cfs, dir |-> <<>>, stored |-> <<>>]
  ELSE LET created(c) ==
             [r |-> c.r, ok |-> c.ok, cfs |-> c.cfs, dir |-> c.dir,
              stored |-> IF c.r = 0 /\ c.ok THEN text ELSE stored]
           parsed(p) ==
             IF ~p.ok
               THEN [r |-> -EINVAL, ok |-> TRUE, cfs |-> cfs, dir |-> <<>>,
                     stored |-> stored]
             ELSE created(create_shards(shards_of(p.sharding_def, 1, 0), 1, cfs, <<>>))
       IN parsed(parse_sharding_def(text))

\* do_open without create_if_missing, up to verify_sharding's comparison of
\* the two definitions
verify_sharding ==
  /\ opc = "start"
  /\ ~create_if_missing
  /\ ~crashed
  /\ LET compare(sharding_def, stored_sharding_def) ==
           \E p \in SortPerms(sharding_def), q \in SortPerms(stored_sharding_def) :
             /\ Names(sharding_def) = Names(stored_sharding_def) => p = q
             /\ IF Match(Permuted(sharding_def, p), Permuted(stored_sharding_def, q))
                  THEN opc' = "verified" /\ open_ret' = 0
                  ELSE opc' = "failed" /\ open_ret' = -EIO
     IN compare(parse_sharding_def(sharding_text).sharding_def,
                parse_sharding_def(stored_sharding_text).sharding_def)
  /\ UNCHANGED <<sharding_text, stored_sharding_text, open_rest, merge_vars>>
  /\ UNCHANGED <<iter_vars, txn_vars, compact_vars>>

OpenUnchanged ==
  UNCHANGED <<compact_queue, compact_queue_stop, thread_started, wpc, wrange,
              wcall, creq, chist, lock_vars, iter_vars, txn_rest, sharding_text,
              create_if_missing, merge_ops, mcall, rhist, parse_vars>>

\* install_cf_mergeop: merge_operator.reset(), then for every registration
\* of key_prefix, in the order of merge_ops, reset(new MergeOperatorLinker)
RECURSIVE install_loop(_, _, _, _)
install_loop(ops, key_prefix, i, merge_operator) ==
  IF i > Len(ops) THEN merge_operator
  ELSE install_loop(ops, key_prefix, i + 1,
                    IF ops[i][1] = key_prefix THEN ops[i][2] ELSE merge_operator)

install_cf_mergeop(ops, key_prefix) == install_loop(ops, key_prefix, 1, "none")

\* what do_open leaves when it returns r at the position pc; close() can
\* be called on the store once it holds the engine
OpenReturn(pc, r, handles, cfs, marker, has_db, fault, close_default) ==
  /\ opc' = pc
  /\ cpc' = IF has_db /\ ~fault THEN "open" ELSE cpc
  /\ must_close_default_cf' = close_default
  /\ cf_merge_operator' = [p \in DOMAIN handles |-> install_cf_mergeop(merge_ops, p)]
  /\ open_ret' = r
  /\ cf_handles' = handles
  /\ rocksdb_cfs' = cfs
  /\ sharding_recreate' = marker
  /\ db' = has_db
  /\ logger' = (pc = "opened")
  /\ crashed' = fault

\* do_open without create_if_missing after the comparison: the rest of
\* verify_sharding (existing and missing column families), the
\* sharding_recreate file, rocksdb::DB::Open, the registration of the
\* existing and the creation of the missing column families
open_db ==
  /\ opc = "verified"
  /\ ~crashed
  /\ ohist' = [cfs |-> rocksdb_cfs, marker |-> sharding_recreate]
  /\ \E stored_sharding_def \in
          SortByName(parse_sharding_def(stored_sharding_text).sharding_def) :
       LET all == shards_of(stored_sharding_def, 1, 0)
           existing_cfs_shard == SelectSeq(all, LAMBDA x : x.name \in rocksdb_cfs)
           missing_cfs_shard == SelectSeq(all, LAMBDA x : x.name \notin rocksdb_cfs)
           recreate_mode == sharding_recreate
           added == add_shards(<<>>, existing_cfs_shard \o missing_cfs_shard, 1)
           created == { missing_cfs_shard[i].name : i \in 1..Len(missing_cfs_shard) }
       IN IF Len(existing_cfs_shard) # Cardinality(rocksdb_cfs)
            THEN OpenReturn("extra", -EIO, cf_handles, rocksdb_cfs, sharding_recreate,
                            db, FALSE, must_close_default_cf)
          ELSE IF ~recreate_mode /\ Len(missing_cfs_shard) # 0
            THEN OpenReturn("missing", -EIO, cf_handles, rocksdb_cfs,
                            sharding_recreate, db, FALSE, must_close_default_cf)
          ELSE IF ~added.ok
            THEN OpenReturn("opening", 0, added.dir, rocksdb_cfs, sharding_recreate,
                            TRUE, TRUE, must_close_default_cf)
          ELSE OpenReturn("opened", 0, added.dir, rocksdb_cfs \cup created,
                          IF Len(missing_cfs_shard) > 0 THEN FALSE
                          ELSE sharding_recreate,
                          TRUE, FALSE, TRUE)
  /\ stored_sharding_text' = stored_sharding_text
  /\ OpenUnchanged

\* create_and_open: do_open with create_if_missing
create_and_open ==
  /\ opc = "start"
  /\ create_if_missing
  /\ ~crashed
  /\ ~db
  /\ ohist' = [cfs |-> rocksdb_cfs, marker |-> sharding_recreate]
  /\ \E a \in { apply_sharding(sharding_text, rocksdb_cfs, stored_sharding_text) } :
        /\ stored_sharding_text' = a.stored
        /\ IF ~a.ok
             THEN OpenReturn("opening", 0, a.dir, a.cfs, sharding_recreate, TRUE, TRUE,
                             must_close_default_cf)
           ELSE IF a.r < 0
             THEN OpenReturn("create_failed", a.r, a.dir, a.cfs, sharding_recreate,
                             TRUE, FALSE, must_close_default_cf)
           ELSE OpenReturn("opened", 0, a.dir, a.cfs, sharding_recreate, TRUE, FALSE,
                           must_close_default_cf)
  /\ OpenUnchanged

repair_NoRewrite(text) == FALSE

\* if (!stored_sharding_text.empty()): recreate markers even if repair failed
repair_rewrites(text) == text # <<>>

\* repair() of a closed store: RepairDB may fail, may drop column families and
\* may delete the files under sharding/ before both are written again
repair ==
  /\ opc = "start"
  /\ ~create_if_missing
  /\ ~crashed
  /\ ~db
  /\ \E repaired \in BOOLEAN, kept \in SUBSET rocksdb_cfs,
        deleted \in IF repair_rewrites(stored_sharding_text) THEN { FALSE }
                    ELSE BOOLEAN :
       /\ rocksdb_cfs' = kept
       /\ stored_sharding_text' =
            IF repair_rewrites(stored_sharding_text) THEN stored_sharding_text
            ELSE IF deleted THEN <<>> ELSE stored_sharding_text
       /\ sharding_recreate' =
            IF repair_rewrites(stored_sharding_text) THEN TRUE
            ELSE IF deleted THEN FALSE ELSE sharding_recreate
       /\ rhist' = [ret |-> IF repaired THEN 0 ELSE -1,
                    text |-> stored_sharding_text, marker |-> sharding_recreate]
  /\ UNCHANGED <<sharding_text, opc, open_ret, create_if_missing,
                 must_close_default_cf, merge_vars, ohist, parse_vars>>
  /\ UNCHANGED <<iter_vars, txn_vars, compact_vars>>

MaxColumns == 2

\* a  b  a(2)  a(2)=o  a(2,1-)  a(2,1-3)
ColumnTexts ==
  { <<97>>, <<98>>, <<97, 40, 50, 41>>, <<97, 40, 50, 41, 61, 111>>,
    <<97, 40, 50, 44, 49, 45, 41>>, <<97, 40, 50, 44, 49, 45, 51, 41>> }

\* the texts of n columns, separated by one space
RECURSIVE ShardingTexts(_)
ShardingTexts(n) ==
  IF n = 0 THEN { <<>> }
  ELSE IF n = 1 THEN ColumnTexts
  ELSE { t \o <<32>> \o c : t \in ShardingTexts(n - 1), c \in ColumnTexts }

AllShardingTexts == UNION { ShardingTexts(n) : n \in 0..MaxColumns }

\* texts that end in a column parse_sharding_def stops at:  b(  and  b(2,1)
ErrorTexts ==
  { t \o e : t \in { <<>>, <<97, 32>>, <<97, 40, 50, 41, 32>> },
             e \in { <<98, 40>>, <<98, 40, 50, 44, 49, 41>> } }

\* the texts create_and_open persists: those it succeeds with on a new store
StoredTexts ==
  { t \in AllShardingTexts :
      LET succeeded(a) == a.r = 0 /\ a.ok IN succeeded(apply_sharding(t, {}, <<>>)) }

\* the column families of the definition a text holds
Declared(text) ==
  LET names(all) == { all[i].name : i \in 1..Len(all) }
  IN names(shards_of(parse_sharding_def(text).sharding_def, 1, 0))

\* a closed store and a call of do_open on it: create_and_open on a new
\* directory, or open on a store that create_and_open made, which may have
\* lost column families since and may hold the sharding_recreate file
InitOpen ==
  /\ IterIdle
  /\ TxnIdle
  /\ compact_queue = <<>>
  /\ compact_queue_stop = FALSE
  /\ thread_started = FALSE
  /\ wpc = "none"
  /\ wrange = <<>>
  /\ wcall = NoCall
  /\ cpc = "closed"
  /\ logger = FALSE
  /\ db = FALSE
  /\ crashed = FALSE
  /\ creq = NoRequest
  /\ chist = NoClose
  /\ LockIdle
  /\ sharding_text \in AllShardingTexts \cup ErrorTexts
  /\ create_if_missing \in BOOLEAN
  /\ IF create_if_missing
       THEN stored_sharding_text = <<>> /\ rocksdb_cfs = {} /\ sharding_recreate = FALSE
       ELSE /\ stored_sharding_text \in StoredTexts
            /\ rocksdb_cfs \in SUBSET Declared(stored_sharding_text)
            /\ sharding_recreate \in { m \in BOOLEAN : m => stored_sharding_text # <<>> }
  /\ opc = "start"
  /\ open_ret = 0
  /\ must_close_default_cf = FALSE
  /\ merge_ops = <<>>
  /\ ohist = NoOpen
  /\ rhist = NoRepair
  /\ parse_in = <<>>
  /\ parse_out = NoParse
  /\ split_call = NoSplit
  /\ mcall = NoMerge
  /\ cf_merge_operator = <<>>

NextOpen == verify_sharding \/ open_db \/ create_and_open \/ repair

SpecOpen == InitOpen /\ [][NextOpen]_vars

\* the texts of the stores that are opened and closed:  (none)  and  a(2) b
CloseTexts == { <<>>, <<97, 40, 50, 41, 32, 98>> }

\* a store that is created, or one that was created with the same text
InitClose ==
  /\ sharding_text \in CloseTexts
  /\ stored_sharding_text \in { <<>>, sharding_text }
  /\ sharding_recreate = FALSE
  /\ InitOpen

\* do_open, then the compaction thread and close() on the store it leaves
NextClose == verify_sharding \/ open_db \/ create_and_open \/ NextCompact

SpecClose == InitClose /\ [][NextClose]_vars

\* the (name, shard_cnt, hash_l, hash_h) of the columns of a definition
Tuples(def) ==
  { <<def[i].name, def[i].shard_cnt, def[i].hash_l, def[i].hash_h>> : i \in 1..Len(def) }

SameTuples ==
  Tuples(parse_sharding_def(sharding_text).sharding_def)
    = Tuples(parse_sharding_def(stored_sharding_text).sharding_def)

\* C10: do_open of an existing store passes verify_sharding if and only if
\* the requested and the stored definition hold the same set of (name,
\* shard_cnt, hash_l, hash_h), whatever the order of the columns and their
\* options; any difference in a name, a shard count or a hash bound makes
\* do_open return an error before the db is opened.
C10_StructuralCompare ==
  (~create_if_missing /\ opc # "start") =>
    /\ (opc # "failed") <=> SameTuples
    /\ opc = "failed" => (open_ret < 0 /\ ~db)

\* C11: do_open, with or without create_if_missing, of a requested text that
\* parse_sharding_def does not accept returns an error; the text never passes
\* on the columns parsed before the error.
C11_SyntaxErrorRejected ==
  (~parse_sharding_def(sharding_text).ok /\ opc # "start") =>
    (opc \in {"failed", "create_failed"} /\ open_ret < 0)


\* open has run past verify_sharding's comparison on an existing store
OpenRan == ~create_if_missing /\ opc \in {"opened", "missing", "extra", "opening"}

\* every shard of every column of the stored definition is registered under
\* the column's name at its index, with the column's hash bounds
Registered ==
  LET def == parse_sharding_def(stored_sharding_text).sharding_def
  IN \A i \in 1..Len(def) :
       /\ def[i].name \in DOMAIN cf_handles
       /\ cf_handles[def[i].name].hash_l = def[i].hash_l
       /\ cf_handles[def[i].name].hash_h = def[i].hash_h
       /\ Len(cf_handles[def[i].name].handles) = def[i].shard_cnt
       /\ \A j \in 0..(def[i].shard_cnt - 1) :
            cf_handles[def[i].name].handles[j + 1] = cf_name(def[i], j)

\* C12: open of an existing store of whose declared column families at least
\* one is missing from the engine: without the sharding_recreate marker it
\* returns an error and creates and registers nothing; with the marker every
\* missing column family is created and registered under its (name, shard
\* index, hash bounds), the open returns 0 and all declared column families
\* are present.
C12_MissingPartitions ==
  (OpenRan /\ Declared(stored_sharding_text) \ ohist.cfs # {}) =>
    IF ~ohist.marker
      THEN /\ opc = "missing"
           /\ open_ret < 0
           /\ rocksdb_cfs = ohist.cfs
           /\ cf_handles = <<>>
           /\ ~db
      ELSE /\ opc = "opened"
           /\ open_ret = 0
           /\ db
           /\ Declared(stored_sharding_text) \subseteq rocksdb_cfs
           /\ Registered

\* C13: after an open of an existing store that returned 0 the
\* sharding_recreate marker is not set, whether or not a column family was
\* missing.
C13_MarkerCleared ==
  (OpenRan /\ opc = "opened") => ~sharding_recreate


Repaired == rhist.ret # NoRepair.ret

ResolvePrefixes == { <<97>>, <<98>>, <<99>> }
ResolveKeys == { <<>>, <<97>>, <<97, 98, 98>>, <<97, 98, 99>>, <<97, 98, 99, 100>> }

\* the bytes of k after the first lo, up to the first hi
Slice(k, lo, hi) == [i \in 1..(hi - lo) |-> k[lo + i]]

HashIndex(bytes, n) == ceph_str_hash_rjenkins(bytes, Len(bytes)) % n

\* C15: get_cf_handle depends on the directory, the prefix and the key only:
\* no handle for a prefix without an entry; the one handle of a prefix with
\* one; for a prefix with N > 1 handles the handle at index h mod N, h the
\* hash of the key bytes from min(hash_l, len) up to min(hash_h, len).  The
\* slice is never of negative length, the index is below N, a key no longer
\* than hash_l hashes the empty slice, and the overload taking (key, keylen)
\* returns the same handle for the same bytes.
C15_Resolve ==
  (opc = "opened" /\ ~crashed) =>
    \A p \in ResolvePrefixes, k \in ResolveKeys :
      /\ get_cf_handle_len(p, k \o <<0>>, Len(k)) = get_cf_handle(p, k)
      /\ IF p \notin DOMAIN cf_handles THEN get_cf_handle(p, k) = nullptr
         ELSE LET e == cf_handles[p]
                  N == Len(e.handles)
                  lo == Min(e.hash_l, Len(k))
                  hi == Min(e.hash_h, Len(k))
              IN IF N = 1 THEN get_cf_handle(p, k) = e.handles[1]
                 ELSE /\ N > 1
                      /\ hi - lo >= 0
                      /\ HashIndex(Slice(k, lo, hi), N) < N
                      /\ get_cf_handle(p, k) = e.handles[HashIndex(Slice(k, lo, hi), N) + 1]
                      /\ Len(k) <= e.hash_l =>
                           get_cf_handle(p, k) = e.handles[HashIndex(<<>>, N) + 1]

\* a(2,1-3): two keys that differ in the hashed bytes go to different shards,
\* a key of one byte hashes the empty slice
C15_Witness ==
  /\ opc = "opened"
  /\ <<97>> \in DOMAIN cf_handles
  /\ cf_handles[<<97>>].hash_l = 1
  /\ cf_handles[<<97>>].hash_h = 3
  /\ get_cf_handle(<<97>>, <<97, 98, 98>>) = <<97, 45, 48>>
  /\ get_cf_handle(<<97>>, <<97, 98, 99>>) = <<97, 45, 49>>
  /\ get_cf_handle(<<97>>, <<97>>) = <<97, 45, 48>>
  /\ <<98>> \notin DOMAIN cf_handles
  /\ get_cf_handle(<<98>>, <<97>>) = nullptr


\* the logical key of prefix p that the engine key x of column family c
\* holds, <<FALSE>> when x is not a key of p
LogicalKey(c, x, p) ==
  IF p \in DOMAIN cf_handles
    THEN IF \E i \in 1..Len(cf_handles[p].handles) : cf_handles[p].handles[i] = c
           THEN <<TRUE, x>> ELSE <<FALSE>>
    ELSE IF c = default_cf /\ split_key(x).r = 0 /\ split_key(x).prefix = p
           THEN <<TRUE, split_key(x).key>> ELSE <<FALSE>>

\* C16: after a committed transaction that holds only rm_range_keys(p, start,
\* end) with start <= end, no key k of p with start <= k < end remains, and
\* every key of p outside [start, end) and every key of every other prefix
\* remains with its value, whether the keys are deleted one by one or by a
\* range delete in each column family.
C16_RangeRemoved ==
  (/\ Committed
   /\ Len(last.log) = 1
   /\ last.log[1].op = "rm_range_keys"
   /\ Compare(last.log[1].start, last.log[1].end) <= 0) =>
    \A c \in ColumnFamilies :
      /\ DOMAIN data[c] \subseteq DOMAIN last.before[c]
      /\ \A x \in DOMAIN last.before[c] :
           LET k == LogicalKey(c, x, last.log[1].prefix)
           IN IF k[1] /\ Compare(last.log[1].start, k[2]) <= 0
                      /\ Compare(k[2], last.log[1].end) < 0
                THEN x \notin DOMAIN data[c]
                ELSE x \in DOMAIN data[c] /\ data[c][x] = last.before[c][x]

\* both keys of the two-shard prefix were stored; the range from "a" on was
\* removed with a threshold that deletes by range
C16_Witness ==
  /\ Committed
  /\ last.log = << [op |-> "rm_range_keys", prefix |-> PrefixS, start |-> <<97>>,
                    end |-> <<255, 255, 255, 255, 1>>] >>
  /\ delete_range_threshold = 1
  /\ ValueAt(last.before, get_where(PrefixS, <<97>>)) # 0
  /\ ValueAt(last.before, get_where(PrefixS, <<255, 255, 255, 255>>)) # 0
  /\ get(PrefixS, <<97>>).r = -ENOENT
  /\ get(PrefixS, <<255, 255, 255, 255>>).r = -ENOENT


----------------------------------------------------------------------------
(* parse_sharding_def on texts written from column definitions, and on the  *)
(* printed form of what it returned                                         *)

\* operator<<(ostream&, const ColumnFamily&)
PrintColumn(cf) ==
  <<40>> \o cf.name \o <<44>> \o to_string(cf.shard_cnt) \o <<44>>
    \o to_string(cf.hash_l) \o <<45>>
    \o (IF cf.hash_h # U32Max THEN to_string(cf.hash_h) ELSE <<>>)
    \o <<44>> \o cf.options \o <<41>>

\* the printed columns of a definition, separated by one space
RECURSIVE PrintColumns(_, _)
PrintColumns(def, i) ==
  IF i > Len(def) THEN <<>>
  ELSE (IF i > 1 THEN <<32>> ELSE <<>>) \o PrintColumn(def[i]) \o PrintColumns(def, i + 1)

\* a column definition as the grammar writes it: form 0 is name, 1 is
\* name(N), 2 is name(N,L-), 3 is name(N,L-H); '=' and the options follow
WriteColumn(c) ==
  c.name
    \o (IF c.form = 0 THEN <<>>
        ELSE <<40>> \o to_string(c.n)
               \o (IF c.form = 1 THEN <<>>
                   ELSE <<44>> \o to_string(c.l) \o <<45>>
                          \o (IF c.form = 3 THEN to_string(c.h) ELSE <<>>))
               \o <<41>>)
    \o (IF c.eq THEN <<61>> \o c.options ELSE <<>>)

RECURSIVE WriteColumns(_, _)
WriteColumns(cols, i) ==
  IF i > Len(cols) THEN <<>>
  ELSE (IF i > 1 THEN <<32>> ELSE <<>>) \o WriteColumn(cols[i]) \o WriteColumns(cols, i + 1)

\* the shapes of a column definition: the four forms with one and two digit
\* numbers, no shard at all, and a range that ends before it begins
ColumnShapes ==
  { [form |-> 0, n |-> 1, l |-> 0, h |-> 0],
    [form |-> 1, n |-> 1, l |-> 0, h |-> 0],
    [form |-> 1, n |-> 6, l |-> 0, h |-> 0],
    [form |-> 2, n |-> 2, l |-> 0, h |-> 0],
    [form |-> 2, n |-> 7, l |-> 10, h |-> 0],
    [form |-> 3, n |-> 2, l |-> 1, h |-> 3],
    [form |-> 3, n |-> 4, l |-> 0, h |-> 10],
    [form |-> 1, n |-> 0, l |-> 0, h |-> 0],
    [form |-> 3, n |-> 2, l |-> 10, h |-> 5] }

\* no options, and the options  o=(p
WrittenColumns ==
  { [name |-> nm, form |-> sh.form, n |-> sh.n, l |-> sh.l, h |-> sh.h,
     eq |-> op[1], options |-> op[2]] :
      nm \in { <<97>>, <<98>> }, sh \in ColumnShapes,
      op \in { <<FALSE, <<>> >>, <<TRUE, <<111, 61, 40, 112>> >> } }

WrittenLists == UNION { [1..n -> WrittenColumns] : n \in 0..MaxColumns }

\* O(6) m(7,10-) prefix(4,0-10)=disable_auto_compactions=true
ExampleText ==
  <<79, 40, 54, 41, 32,
     109, 40, 55, 44, 49, 48, 45, 41, 32,
     112, 114, 101, 102, 105, 120, 40, 52, 44, 48, 45, 49, 48, 41, 61,
     100, 105, 115, 97, 98, 108, 101, 95, 97, 117, 116, 111, 95, 99, 111, 109, 112, 97, 99, 116,
     105, 111, 110, 115, 61, 116, 114, 117, 101>>

ExampleColumns ==
  << [name |-> <<79>>, form |-> 1, n |-> 6, l |-> 0, h |-> 0, eq |-> FALSE,
      options |-> <<>>],
     [name |-> <<109>>, form |-> 2, n |-> 7, l |-> 10, h |-> 0, eq |-> FALSE,
      options |-> <<>>],
     [name |-> <<112, 114, 101, 102, 105, 120>>, form |-> 3, n |-> 4,
      l |-> 0, h |-> 10, eq |-> TRUE,
      options |-> 
        <<100, 105, 115, 97, 98, 108, 101, 95, 97, 117, 116, 111, 95, 99, 111, 109, 112, 97, 99, 116,
          105, 111, 110, 115, 61, 116, 114, 117, 101>>] >>

\* parse_sharding_def(text, sharding_def) is called
parse_text ==
  /\ parse_out.stage = 0
  /\ parse_out' = [stage |-> 1, first |-> parse_sharding_def(sharding_text)]
  /\ UNCHANGED <<sharding_text, stored_sharding_text, opc, open_ret, create_if_missing,
                 rocksdb_cfs, sharding_recreate, must_close_default_cf, ohist, rhist,
                 parse_in, split_call, merge_vars>>
  /\ UNCHANGED <<iter_vars, txn_vars, compact_vars>>

\* the definition it returned is printed, and the printed text is parsed
print_and_parse ==
  /\ parse_out.stage = 1
  /\ parse_out.first.ok
  /\ parse_out' = [stage |-> 2, first |-> parse_out.first,
                   printed |-> PrintColumns(parse_out.first.sharding_def, 1),
                   second |-> parse_sharding_def(
                                PrintColumns(parse_out.first.sharding_def, 1))]
  /\ UNCHANGED <<sharding_text, stored_sharding_text, opc, open_ret, create_if_missing,
                 rocksdb_cfs, sharding_recreate, must_close_default_cf, ohist, rhist,
                 parse_in, split_call, merge_vars>>
  /\ UNCHANGED <<iter_vars, txn_vars, compact_vars>>

InitParse ==
  /\ IterIdle
  /\ TxnIdle
  /\ CompactIdle
  /\ stored_sharding_text = <<>>
  /\ opc = "opened"
  /\ open_ret = 0
  /\ create_if_missing = FALSE
  /\ rocksdb_cfs = {}
  /\ sharding_recreate = FALSE
  /\ must_close_default_cf = TRUE
  /\ ohist = NoOpen
  /\ rhist = NoRepair
  /\ merge_ops = <<>>
  /\ mcall = NoMerge
  /\ cf_merge_operator = <<>>
  /\ parse_out = NoParse
  /\ split_call = NoSplit
  /\ \/ parse_in \in WrittenLists /\ sharding_text = WriteColumns(parse_in, 1)
     \/ parse_in = ExampleColumns /\ sharding_text = ExampleText

NextParse == parse_text \/ print_and_parse

SpecParse == InitParse /\ [][NextParse]_vars

----------------------------------------------------------------------------
(* combine_strings and split_key                                            *)

MaxKeyLen == 3

\* the byte strings of at most n bytes of an alphabet
Strings(alphabet, n) == UNION { [1..m -> alphabet] : m \in 0..n }

\* engine keys: NUL, a, b
RawKeys == Strings({0, 97, 98}, MaxKeyLen)
\* prefixes and suffixes, with and without NUL bytes
CodecStrings == Strings({0, 97}, MaxKeyLen - 1)
\* what the strings handed to split_key hold before the call
SplitBefore == { << <<>>, <<>> >>, << <<120>>, <<121>> >> }

SplitUnchanged ==
  UNCHANGED <<iter_vars, txn_vars, compact_vars, sharding_text, stored_sharding_text,
              opc, open_ret, create_if_missing, rocksdb_cfs, sharding_recreate,
              must_close_default_cf, ohist, rhist, parse_in, parse_out, merge_vars>>

\* split_key(in, &prefix, &key)
split_key_call(in, prefix, k) ==
  /\ split_call' = [op |-> "split_key", in |-> in, prefix |-> prefix, key |-> k,
                    result |-> split_key_into(in, prefix, k)]
  /\ SplitUnchanged

\* combine_strings(prefix, key, &out); split_key(out, &prefix, &key)
combine_and_split(prefix, k) ==
  /\ split_call' = [op |-> "combine_strings", in |-> combine_strings(prefix, k),
                    prefix |-> prefix, key |-> k,
                    result |-> split_key(combine_strings(prefix, k))]
  /\ SplitUnchanged

InitCodec ==
  /\ IterIdle
  /\ TxnIdle
  /\ CompactIdle
  /\ OpenIdle
  /\ merge_ops = <<>>

NextCodec ==
  \/ \E in \in RawKeys, b \in SplitBefore : split_key_call(in, b[1], b[2])
  \/ \E prefix \in CodecStrings, k \in CodecStrings : combine_and_split(prefix, k)

SpecCodec == InitCodec /\ [][NextCodec]_vars

\* what the grammar says a written column is
GrammarColumn(c) ==
  [name |-> c.name,
   shard_cnt |-> IF c.form = 0 THEN 1 ELSE c.n,
   hash_l |-> IF c.form >= 2 THEN c.l ELSE 0,
   hash_h |-> IF c.form = 3 THEN c.h ELSE U32Max,
   options |-> IF c.eq THEN c.options ELSE <<>>]

\* C17: parse_sharding_def follows the grammar: name gives (name, 1 shard,
\* [0, MAX)), name(N) gives (name, N, [0, MAX)), name(N,L-) gives (name, N,
\* [L, MAX)), name(N,L-H) gives (name, N, [L, H)); what follows the first '='
\* of a column is its options, unchanged; the columns come in the order of
\* the text.
C17_Grammar ==
  parse_out.stage >= 1 =>
    /\ parse_out.first.ok
    /\ parse_out.first.sharding_def = [i \in 1..Len(parse_in) |-> GrammarColumn(parse_in[i])]

\* the example text gives three columns of 6, 7 and 4 shards with the ranges
\* [0, MAX), [10, MAX) and [0, 10)
C17_Witness ==
  /\ parse_out.stage >= 1
  /\ sharding_text = ExampleText
  /\ Len(parse_out.first.sharding_def) = 3
  /\ [i \in 1..3 |-> <<parse_out.first.sharding_def[i].shard_cnt,
                       parse_out.first.sharding_def[i].hash_l,
                       parse_out.first.sharding_def[i].hash_h>>]
       = << <<6, 0, U32Max>>, <<7, 10, U32Max>>, <<4, 0, 10>> >>
  /\ parse_out.first.sharding_def[3].name = <<112, 114, 101, 102, 105, 120>>
  /\ parse_out.first.sharding_def[3].options = 
        <<100, 105, 115, 97, 98, 108, 101, 95, 97, 117, 116, 111, 95, 99, 111, 109, 112, 97, 99, 116,
          105, 111, 110, 115, 61, 116, 114, 117, 101>>

\* C18: for every text that parses, printing the parsed columns and parsing
\* the printed text gives the same set of (name, shard_cnt, hash_l, hash_h).
C18_RoundTrip ==
  parse_out.stage = 2 =>
    /\ parse_out.second.ok
    /\ Tuples(parse_out.second.sharding_def) = Tuples(parse_out.first.sharding_def)


----------------------------------------------------------------------------
(* set_merge_operator, and the merges the engine hands to the router of the *)
(* default column family                                                    *)

MaxMergeOps == 2

MergePrefixes == { <<85>>, <<85, 85>> }
MergeOperators == { "max", "sum" }
\* engine keys of the default column family: U\0a  U\0  UU\0a  V\0a
MergeKeys ==
  { combine_strings(<<85>>, <<97>>), combine_strings(<<85>>, <<>>),
    combine_strings(<<85, 85>>, <<97>>), combine_strings(<<86>>, <<97>>) }

assert_None == TRUE

\* ceph_assert(db == nullptr)
assert_db_null == ~db

MergeUnchanged ==
  UNCHANGED <<iter_vars, txn_vars, compact_queue, compact_queue_stop, thread_started,
              wpc, wrange, wcall, cpc, logger, db, creq, chist, lock_vars, sharding_text,
              stored_sharding_text, opc, open_ret, open_rest>>

set_merge_operator(prefix, mop) ==
  /\ ~crashed
  /\ mcall' = [op |-> "set_merge_operator", db |-> db, before |-> merge_ops,
               registration |-> <<prefix, mop>>]
  /\ IF assert_db_null
       THEN /\ Len(merge_ops) < MaxMergeOps
            /\ merge_ops' = Append(merge_ops, <<prefix, mop>>)
            /\ crashed' = FALSE
       ELSE /\ merge_ops' = merge_ops
            /\ crashed' = TRUE
  /\ cf_merge_operator' = cf_merge_operator
  /\ MergeUnchanged

\* the name() of a registered operator:  max  or  sum
mop_name(mop) == IF mop = "max" THEN <<109, 97, 120>> ELSE <<115, 117, 109>>

\* MergeOperatorRouter::Name: names[p.first] = p.second->name() over merge_ops
\* in registration order, the prefixes of cf_handles erased, then
\* '.' prefix ':' name in the order of the map
MergeOperatorRouter_Name(ops, handles) ==
  LET assigned == { ops[i][1] : i \in 1..Len(ops) }
      names == [x \in assigned |->
                 LET last_i == CHOOSE i \in 1..Len(ops) :
                                 /\ ops[i][1] = x
                                 /\ \A j \in 1..Len(ops) : ops[j][1] = x => j <= i
                 IN mop_name(ops[last_i][2])]
      RECURSIVE parts(_, _)
      parts(keys, i) ==
        IF i > Len(keys) THEN <<>>
        ELSE <<46>> \o keys[i] \o <<58>> \o names[keys[i]] \o parts(keys, i + 1)
  IN parts(SortedKeys(assigned \ DOMAIN handles), 1)

\* the engine asks the router of the open store for its name
router_name ==
  /\ ~crashed
  /\ opc = "opened"
  /\ mcall' = [op |-> "Name", assoc_name |-> MergeOperatorRouter_Name(merge_ops, cf_handles)]
  /\ UNCHANGED <<merge_ops, cf_merge_operator, crashed>>
  /\ MergeUnchanged

\* the engine merges an operand into a key of the default column family of
\* the open store
router_merge(k, has_existing, existing, value) ==
  /\ ~crashed
  /\ opc = "opened"
  /\ mcall' = [op |-> "Merge", key |-> k, has_existing |-> has_existing,
               existing |-> existing, value |-> value, new_value |-> 0,
               result |-> MergeOperatorRouter_Merge(merge_ops, k, has_existing,
                                                    existing, value, 0)]
  /\ UNCHANGED <<merge_ops, cf_merge_operator, crashed>>
  /\ MergeUnchanged

\* a store not yet created, with no operator registered
InitMerge ==
  /\ IterIdle
  /\ TxnIdle
  /\ compact_queue = <<>>
  /\ compact_queue_stop = FALSE
  /\ thread_started = FALSE
  /\ wpc = "none"
  /\ wrange = <<>>
  /\ wcall = NoCall
  /\ cpc = "closed"
  /\ logger = FALSE
  /\ db = FALSE
  /\ crashed = FALSE
  /\ creq = NoRequest
  /\ chist = NoClose
  /\ LockIdle
  /\ sharding_text \in { <<>>, <<85>> }
  /\ create_if_missing = TRUE
  /\ stored_sharding_text = <<>>
  /\ rocksdb_cfs = {}
  /\ sharding_recreate = FALSE
  /\ must_close_default_cf = FALSE
  /\ opc = "start"
  /\ open_ret = 0
  /\ merge_ops = <<>>
  /\ mcall = NoMerge
  /\ cf_merge_operator = <<>>
  /\ ohist = NoOpen
  /\ rhist = NoRepair
  /\ parse_in = <<>>
  /\ parse_out = NoParse
  /\ split_call = NoSplit

NextMerge ==
  \/ \E p \in MergePrefixes, mop \in MergeOperators : set_merge_operator(p, mop)
  \/ create_and_open
  \/ \E k \in MergeKeys, has \in BOOLEAN : router_merge(k, has, IF has THEN 3 ELSE 0, 2)
  \/ router_name

SpecMerge == InitMerge /\ [][NextMerge]_vars

\* C19: set_merge_operator succeeds only while db is null: then it appends
\* (prefix, operator) at the end of merge_ops and leaves the earlier
\* registrations as they are; called while db is not null it aborts, and
\* merge_ops never changes while the store holds the engine.
C19_RegisterBeforeOpen ==
  /\ [][merge_ops' # merge_ops =>
          /\ ~db /\ ~db'
          /\ Len(merge_ops') = Len(merge_ops) + 1
          /\ SubSeq(merge_ops', 1, Len(merge_ops)) = merge_ops]_vars
  /\ [](mcall.op = "set_merge_operator" =>
          IF mcall.db
            THEN crashed /\ merge_ops = mcall.before
            ELSE ~crashed /\ merge_ops = Append(mcall.before, mcall.registration))

\* an operator was registered, the store was opened, and the second
\* set_merge_operator aborted
C19_Witness ==
  /\ mcall.op = "set_merge_operator"
  /\ mcall.db
  /\ crashed
  /\ opc = "opened"
  /\ merge_ops = << << <<85>>, "max" >> >>

\* C20: on the default column family the operator applied to an engine key is
\* the first one in registration order whose prefix is the key's bytes before
\* its NUL separator; when none is registered for them, no operator is
\* applied, new_value is left as it was, and Merge still returns true.
C20_FirstMatchWins ==
  mcall.op = "Merge" =>
    LET m == { i \in 1..Len(merge_ops) : merge_ops[i][1] = split_key(mcall.key).prefix }
    IN /\ mcall.result.ret = TRUE
       /\ IF m = {} THEN mcall.result.new_value = mcall.new_value
          ELSE LET first == CHOOSE i \in m : \A j \in m : i <= j
               IN mcall.result.new_value =
                    mop_call(merge_ops[first][2], mcall.has_existing, mcall.existing,
                             mcall.value)

\* "max" was registered for U before "sum": merging 2 into the 3 under U\0a
\* gives 3, not 5
C20_Witness ==
  /\ mcall.op = "Merge"
  /\ merge_ops = << << <<85>>, "max" >>, << <<85>>, "sum" >> >>
  /\ mcall.key = <<85, 0, 97>>
  /\ mcall.has_existing
  /\ mcall.result = [ret |-> TRUE, new_value |-> 3]

\* C21: the name of the router is the same for every order of the same
\* registrations: it depends only on the registered (prefix, operator) pairs
\* without the prefixes of cf_handles, also when one prefix is registered
\* more than once with different operators.
C21_NameOrderFree ==
  mcall.op = "Name" =>
    \A q \in Permutations(1..Len(merge_ops)) :
      MergeOperatorRouter_Name(Permuted(merge_ops, q), cf_handles) = mcall.assoc_name

\* C22: submit_transaction never asks for sync, submit_transaction_sync asks
\* for it exactly when the write-ahead log is not disabled, and every write
\* carries the store's disableWAL: no write is both synced and unlogged.
\* (The write just made is the one of submit_transaction_sync when it is
\* synced or the log is disabled and it is that of either call otherwise.)
C22_DurabilityFlags ==
  /\ [][last'.log # <<>> =>
          /\ last'.woptions.disableWAL = disableWAL
          /\ last'.woptions.sync => ~disableWAL
          /\ ~(last'.woptions.sync /\ last'.woptions.disableWAL)]_vars
  /\ [][submit_transaction => ~last'.woptions.sync]_vars
  /\ [][submit_transaction_sync => (last'.woptions.sync <=> ~disableWAL)]_vars

\* a synced write with the log on, and an unsynced one of
\* submit_transaction_sync's with the log off
C22_Witness ==
  /\ last.log # <<>>
  /\ last.woptions = [sync |-> TRUE, disableWAL |-> FALSE]

\* the positions of a step in the steps close() has taken
StepsOf(name) == { i \in DOMAIN chist.steps : chist.steps[i].step = name }

\* C23: close() takes its steps in one order.  When it finds the compaction
\* thread started it stops and joins it first; no handle is destroyed before
\* that, nor before the logger is removed; every handle of the directory is
\* destroyed exactly once and the directory is left empty; the default
\* handle is destroyed, after the others, exactly when the store was opened
\* without create_if_missing; and the engine is deleted last, once.
C23_CloseOrder ==
  /\ [][(cpc = "destroy_handles" /\ cpc' = "delete_db") =>
          /\ \A x \in DOMAIN cf_handles : \A j \in DOMAIN cf_handles[x].handles :
               Cardinality({ i \in DOMAIN chist'.steps :
                               /\ chist'.steps[i].step = "DestroyColumnFamilyHandle"
                               /\ chist'.steps[i].handle = <<cf_handles[x].handles[j]>> }) = 1
          /\ \A i \in DOMAIN chist'.steps :
               chist'.steps[i].step = "DestroyColumnFamilyHandle" =>
                 \E x \in DOMAIN cf_handles : \E j \in DOMAIN cf_handles[x].handles :
                   chist'.steps[i].handle = <<cf_handles[x].handles[j]>>
          /\ cf_handles' = <<>>]_vars
  /\ [](LET destroyed == StepsOf("DestroyColumnFamilyHandle")
            default == StepsOf("DestroyColumnFamilyHandle(default_cf)")
            deleted == StepsOf("delete db")
        IN /\ (chist.found = "started" /\ cpc \notin {"open", "joining"}) =>
                /\ Len(chist.steps) >= 2
                /\ chist.steps[1].step = "stop"
                /\ chist.steps[2].step = "join"
           /\ \A i \in destroyed \cup default \cup deleted :
                \A j \in StepsOf("stop") \cup StepsOf("join") \cup StepsOf("unregister") :
                  j < i
           /\ cpc \in {"open", "joining", "unregister", "destroy_handles"} =>
                destroyed \cup default \cup deleted = {}
           /\ (cpc \in {"delete_db", "closed"} /\ chist.found # "none") =>
                /\ cf_handles = <<>>
                /\ (default # {}) <=> ~create_if_missing
                /\ Cardinality(default) <= 1
                /\ \A i \in destroyed : \A j \in default : i < j
           /\ cpc = "delete_db" => deleted = {}
           /\ (cpc = "closed" /\ chist.found # "none") =>
                /\ deleted = { Len(chist.steps) }
                /\ ~db)

\* a store with three shard handles, opened without create_if_missing, was
\* closed while the compaction thread ran
C23_Witness ==
  /\ cpc = "closed"
  /\ ~create_if_missing
  /\ chist.found = "started"
  /\ Cardinality(StepsOf("DestroyColumnFamilyHandle")) = 3
  /\ Cardinality(StepsOf("DestroyColumnFamilyHandle(default_cf)")) = 1
  /\ chist.steps[Len(chist.steps)].step = "delete db"

\* the first NUL byte of the key handed to split_key, 0 when it has none
FirstNul(in) ==
  IF \E i \in DOMAIN in : in[i] = 0
    THEN CHOOSE i \in DOMAIN in : in[i] = 0 /\ \A j \in 1..(i - 1) : in[j] # 0
    ELSE 0

\* C24 as stated: split_key fails when the key has no NUL byte and when its
\* first NUL byte is its last byte, and a call that fails writes neither
\* string.
C24_MalformedKey ==
  split_call.op = "split_key" =>
    /\ (FirstNul(split_call.in) = 0 \/ FirstNul(split_call.in) = Len(split_call.in)) =>
         split_call.result.r < 0
    /\ split_call.result.r < 0 =>
         /\ split_call.result.prefix = split_call.prefix
         /\ split_call.result.key = split_call.key

\* C24, amended: split_key fails exactly when the key has no NUL byte, and
\* then writes neither string; a key whose first NUL byte is its last byte
\* is split into the bytes before it and the empty key.
C24_MalformedKeyAmended ==
  split_call.op = "split_key" =>
    /\ split_call.result.r < 0 <=> FirstNul(split_call.in) = 0
    /\ split_call.result.r < 0 =>
         /\ split_call.result.prefix = split_call.prefix
         /\ split_call.result.key = split_call.key
    /\ (FirstNul(split_call.in) # 0 /\ FirstNul(split_call.in) = Len(split_call.in)) =>
         /\ split_call.result.r = 0
         /\ split_call.result.prefix = SubSeq(split_call.in, 1, Len(split_call.in) - 1)
         /\ split_call.result.key = <<>>

\* "a\0" was split into strings that held "x" and "y"
C24_Witness ==
  /\ split_call.op = "split_key"
  /\ split_call.in = <<97, 0>>
  /\ split_call.prefix = <<120>>
  /\ split_call.key = <<121>>
  /\ split_call.result = [r |-> 0, prefix |-> <<97>>, key |-> <<>>]

\* C25: for every prefix without a NUL byte and every key, with or without
\* NUL bytes and also the empty one, split_key of combine_strings(prefix,
\* key) returns 0 and exactly (prefix, key).
C25_CodecRoundTrip ==
  (split_call.op = "combine_strings" /\ \A i \in DOMAIN split_call.prefix :
                                          split_call.prefix[i] # 0) =>
    split_call.result = [r |-> 0, prefix |-> split_call.prefix, key |-> split_call.key]

\* the key "\0a" under the prefix "a"
C25_Witness ==
  /\ split_call.op = "combine_strings"
  /\ split_call.prefix = <<97>>
  /\ split_call.key = <<0, 97>>
  /\ split_call.in = <<97, 0, 0, 97>>
  /\ split_call.result = [r |-> 0, prefix |-> <<97>>, key |-> <<0, 97>>]

\* ---------------------------------------------------------------------------
\* ShardMergeIteratorImpl: the order of the sub-iterator array
\* ---------------------------------------------------------------------------

\* the array is sorted under keyless: valid sub-iterators first, in ascending
\* order of their current keys
ItersSorted(arr, ps) ==
  \A i, j \in 1..Len(arr) : i < j => ~KeyLess(arr[j], arr[i], ps)

\* C26: after a call of seek_to_first, seek_to_last, lower_bound, upper_bound,
\* next or prev that returned success, every valid sub-iterator precedes every
\* invalid one and the valid ones ascend by current key, so valid() is false
\* only when no sub-iterator is valid and key() is the smallest current key.
C26_SortedInvariant ==
  (it_ret = 0) =>
    /\ ItersSorted(iters, pos)
    /\ valid <=> \E cf \in DOMAIN pos : IsValid(cf, pos)
    /\ valid => \A cf \in DOMAIN pos :
                  IsValid(cf, pos) => ~KeyLess(cf, iters[1], pos)

\* C27: given the same calls of seek_to_first, seek_to_last, lower_bound,
\* upper_bound, next and prev, from any state (before the first key and past
\* the last one included), the iterator over the shards and CFIteratorImpl
\* over one column family holding all the shards' keys report the same
\* valid() and, when valid, the same key().
C27_SameAsSingleIterator ==
  /\ valid <=> CF_valid(dbiter)
  /\ valid => key = CF_key(UnionKeys, dbiter)

----------------------------------------------------------------------------
(* The full-range sentinel in the compaction queue                          *)

\* both bounds empty: compact everything
FullRange == << <<>>, <<>> >>

\* C28: a queued full-range sentinel is not narrowed, replaced or dropped by
\* a later compact_range_async: it is still in the queue after the call; and
\* a full-range request leaves a full-range entry in the queue.
C28_FullRangeKept ==
  creq # NoRequest =>
    /\ Count(creq.before, FullRange) > 0 => Count(compact_queue, FullRange) > 0
    /\ creq.range = FullRange => Count(compact_queue, FullRange) > 0

----------------------------------------------------------------------------
(* What the queued ranges cover                                             *)

\* keys at, between and beyond the bounds of the requests
ProbeKeys == CompactKeys \cup { <<97, 0>>, <<99>> }

WellFormed(q) == \A i \in 1..Len(q) : Compare(q[i][1], q[i][2]) <= 0

\* some entry [s', e'] of q has s' <= k <= e'
Covered(q, k) ==
  \E i \in 1..Len(q) : Compare(q[i][1], k) <= 0 /\ Compare(k, q[i][2]) <= 0

\* C29: after compact_range_async(s, e) with s <= e on a queue of well-formed
\* entries the queue holds an entry [s', e'] with s' <= s and e <= e', and
\* every key that a queued entry covered before the call is covered by a
\* queued entry after it.
C29_NoRangeLost ==
  (creq # NoRequest /\ WellFormed(creq.before)) =>
    /\ \E i \in 1..Len(compact_queue) :
         /\ Compare(compact_queue[i][1], creq.range[1]) <= 0
         /\ Compare(creq.range[2], compact_queue[i][2]) <= 0
    /\ \A k \in ProbeKeys : Covered(creq.before, k) => Covered(compact_queue, k)

\* ("a", "b") requested with ("", "a") queued: the entry became ("", "b");
\* and ("", "a") requested with ("a", "b") queued
C29_Witness ==
  \/ /\ creq = [range |-> << <<97>>, <<98>> >>, before |-> << << <<>>, <<97>> >> >>]
     /\ compact_queue = << << <<>>, <<98>> >> >>
  \/ /\ creq = [range |-> << <<>>, <<97>> >>, before |-> << << <<97>>, <<98>> >> >>]
     /\ compact_queue = << << <<>>, <<98>> >> >>

----------------------------------------------------------------------------
(* rmkeys_by_prefix: key by key or by range                                 *)

\* the column families that hold the keys of prefix
Partitions(prefix) ==
  IF prefix \in DOMAIN cf_handles
    THEN { cf_handles[prefix].handles[i] : i \in 1..Len(cf_handles[prefix].handles) }
    ELSE { default_cf }

\* the keys of prefix stored in column family cf
StoredKeys(prefix, cf) ==
  IF prefix \in DOMAIN cf_handles
    THEN DOMAIN data[ColumnFamilyId(cf)]
    ELSE { k \in DOMAIN data[ColumnFamilyId(cf)] : raw_key_is_prefixed(k, prefix) }

OpsOn(b, name, cf) ==
  Cardinality({ i \in 1..Len(b) : b[i].op = name /\ b[i].cf = ColumnFamilyId(cf) })

\* C30: rmkeys_by_prefix, as the first call of a transaction, leaves in the
\* batch for every column family of the prefix, with k its stored keys and
\* T = delete_range_threshold: exactly k point deletes and no range delete
\* when k < T; no point delete and exactly one range delete when k >= T.
\* For every T >= 0 and every k >= 0.
C30_ThresholdChoice ==
  (Len(txlog) = 1 /\ txlog[1].op = "rmkeys_by_prefix") =>
    \A cf \in Partitions(txlog[1].prefix) :
      LET k == Cardinality(StoredKeys(txlog[1].prefix, cf))
      IN IF k < delete_range_threshold
           THEN OpsOn(bat, "Delete", cf) = k /\ OpsOn(bat, "DeleteRange", cf) = 0
           ELSE OpsOn(bat, "Delete", cf) = 0 /\ OpsOn(bat, "DeleteRange", cf) = 1

----------------------------------------------------------------------------
(* rmkeys_by_prefix on the default column family: what it leaves alone      *)

NulFree(str) == \A i \in 1..Len(str) : str[i] # 0

\* the content of column family cf that does not belong to prefix
OthersIn(d, cf, prefix) ==
  [k \in { x \in DOMAIN d[cf] : ~raw_key_is_prefixed(x, prefix) } |-> d[cf][k]]

\* C31: rmkeys_by_prefix(p) of an undeclared prefix p, all prefixes free of
\* NUL bytes: (a) after the commit every key of every other prefix (those
\* that extend p or hold the byte 1 among them) is stored as before, on the
\* key by key path and on the range delete path; (b) the rollback to the
\* savepoint leaves the operations added to the batch before the call.
C31_Frame ==
  /\ (/\ Committed
      /\ \E i \in 1..Len(last.log) : last.log[i].op = "rmkeys_by_prefix"
      /\ tx_prefix \notin DOMAIN cf_handles
      /\ \A i \in 1..Len(StoredPrefixes) : NulFree(StoredPrefixes[i]))
       => /\ OthersIn(data, default_cf, tx_prefix)
              = OthersIn(last.before, default_cf, tx_prefix)
          /\ \A cf \in ColumnFamilies \ { default_cf } : data[cf] = last.before[cf]
  /\ (/\ Len(txlog) = 2
      /\ txlog[1].op = "set"
      /\ txlog[2].op = "rmkeys_by_prefix"
      /\ tx_prefix \notin DOMAIN cf_handles)
       => /\ Len(bat) >= 1
          /\ bat[1] = Put(default_cf, combine_strings(tx_prefix, txlog[1].key),
                          txlog[1].value)

\* "U" held "a" and the threshold is 1: set("U", "a") and rmkeys_by_prefix("U")
\* were committed through the range delete, and the key "a" of the prefix
\* "U\x01" is still stored
C31_Witness ==
  /\ Committed
  /\ tx_prefix = PrefixU
  /\ delete_range_threshold = 1
  /\ Len(last.log) = 2
  /\ last.log[1].op = "set" /\ last.log[1].key = <<97>>
  /\ last.log[2].op = "rmkeys_by_prefix"
  /\ <<85, 0, 97>> \in DOMAIN last.before[default_cf]
  /\ <<85, 0, 97>> \notin DOMAIN data[default_cf]
  /\ <<85, 1, 0, 97>> \in DOMAIN data[default_cf]

----------------------------------------------------------------------------
(* do_open that returns an error                                            *)

\* C32: when create_and_open or open returns an error the instance holds no
\* engine instance and no column family handles, so that set_merge_operator
\* (which asserts db == nullptr) and a new open are legal.
C32_ErrorLeavesClosed ==
  open_ret < 0 => (~db /\ DOMAIN cf_handles = {} /\ assert_db_null)

----------------------------------------------------------------------------
(* close() and a second open of the same instance                           *)

\* do_open(create_if_missing = false) is called on the instance that was
\* opened and closed; nothing of the instance is reset by the call
open_again ==
  /\ ~crashed
  /\ cpc = "closed"
  /\ opc = "opened"
  /\ ~db
  /\ opc' = "start"
  /\ create_if_missing' = FALSE
  /\ open_ret' = 0
  /\ UNCHANGED <<sharding_text, stored_sharding_text, rocksdb_cfs, sharding_recreate,
                 must_close_default_cf, ohist, rhist, parse_vars, merge_vars>>
  /\ UNCHANGED <<iter_vars, txn_vars, compact_vars>>

\* a new store made with "a(2) b"
InitReopen ==
  /\ sharding_text = <<97, 40, 50, 41, 32, 98>>
  /\ create_if_missing = TRUE
  /\ InitOpen

NextReopen == NextClose \/ open_again

\* the operating system schedules the compaction thread
SpecReopen ==
  /\ InitReopen
  /\ [][NextReopen]_vars
  /\ WF_vars(compact_thread_entry)
  /\ WF_vars(compact_return)

\* close() has run on the instance and a later open has succeeded
Reopened == chist.found # "none" /\ Open /\ opc = "opened"

\* C33: after close() and a successful open of the same instance, under
\* fair scheduling of the thread and while close() is not called again, a
\* queued request leads to a compaction call of the thread.
C33_CompactionAfterReopen ==
  (Reopened /\ compact_queue # <<>>) ~> (wpc = "compacting" \/ ~Reopened)

----------------------------------------------------------------------------
(* ShardMergeIteratorImpl over column families that fail                    *)
(* During one call every engine call on a sub-iterator of `bad` fails: the  *)
(* sub-iterator is left !Valid() and its status() is not ok.                *)

\* for (auto& it : iters) { it->Seek...(); if (!it->status().ok()) return -1; }
\* with to[cf] the position the seek gives: the positions left and the
\* sub-iterator the loop returned at
RECURSIVE SeekEach(_, _, _, _, _)
SeekEach(arr, ps, to, bad, i) ==
  IF i > Len(arr) THEN [ps |-> ps, failed |-> {}]
  ELSE IF arr[i] \in bad
    THEN [ps |-> [ps EXCEPT ![arr[i]] = 0], failed |-> { arr[i] }]
  ELSE SeekEach(arr, [ps EXCEPT ![arr[i]] = to[arr[i]]], to, bad, i + 1)

\* a seek that meets a failing sub-iterator returns -1 before the sort
seek_failed(to, bad) ==
  LET left(r) ==
        /\ r.failed # {}
        /\ pos' = r.ps
        /\ io_error' = r.failed
  IN /\ left(SeekEach(iters, pos, to, bad, 1))
     /\ it_ret' = -1
     /\ scan' = "none"
     /\ seen' = <<>>
     /\ np' = NoNextPrev
     /\ UNCHANGED <<shards, iters, dbiter, txn_vars, compact_vars, open_vars>>

seek_to_first_failed(bad) == seek_failed([cf \in DOMAIN pos |-> SeekToFirst(cf)], bad)

seek_to_last_failed(bad) == seek_failed([cf \in DOMAIN pos |-> SeekToLast(cf)], bad)

lower_bound_failed(to, bad) == seek_failed([cf \in DOMAIN pos |-> Seek(cf, to)], bad)

upper_bound_failed(after, bad) == seek_failed([cf \in DOMAIN pos |-> Seek(cf, after)], bad)

\* next(): iters[0]->Next() fails, if (iters[0]->status().ok()) is not taken
next_failed(bad) ==
  /\ valid
  /\ iters[1] \in bad
  /\ pos' = [pos EXCEPT ![iters[1]] = 0]
  /\ io_error' = { iters[1] }
  /\ it_ret' = -1
  /\ scan' = "none"
  /\ seen' = <<>>
  /\ np' = NoNextPrev
  /\ UNCHANGED <<shards, iters, dbiter, txn_vars, compact_vars, open_vars>>

\* prev() with the sub-iterators of bad failing in step 1: they are not
\* Valid() after Prev() and SeekToFirst(), or after SeekToLast(), and are not
\* in prev_done; prev() reads no status() and returns 0
PrevResultFailed(arr, ps, bad) ==
  LET p1 == [cf \in DOMAIN ps |-> IF cf \in bad THEN 0 ELSE PrevStep1(arr, ps)[cf]]
      pd == SelectSeq(PrevDone(arr, ps), LAMBDA cf : cf \notin bad)
      steps23(h) == [arr |-> PrevShift(arr, 1, h.highest, h.highest), ps |-> h.ps, r |-> 0]
  IN IF Len(pd) = 0
       THEN [arr |-> arr,
             ps  |-> IF IsValid(arr[1], p1)
                       THEN [p1 EXCEPT ![arr[1]] = IterPrev(arr[1], p1[arr[1]])]
                       ELSE p1,
             r   |-> 0]
       ELSE steps23(PrevHighest(pd, 2, pd[1], p1))

prev_failed(bad) ==
  LET left(r) ==
        /\ iters' = r.arr
        /\ pos' = r.ps
        /\ it_ret' = r.r
  IN /\ bad # {}
     /\ left(PrevResultFailed(iters, pos, bad))
     /\ io_error' = bad
     /\ scan' = "none"
     /\ seen' = <<>>
     /\ np' = NoNextPrev
     /\ UNCHANGED <<shards, dbiter, txn_vars, compact_vars, open_vars>>

NextIterFailed ==
  \/ \E bad \in SUBSET DOMAIN shards : seek_to_first_failed(bad)
  \/ \E bad \in SUBSET DOMAIN shards : seek_to_last_failed(bad)
  \/ \E bad \in SUBSET DOMAIN shards, k \in SeekKeys : lower_bound_failed(k, bad)
  \/ \E bad \in SUBSET DOMAIN shards, k \in SeekKeys : upper_bound_failed(k, bad)
  \/ \E bad \in SUBSET DOMAIN shards : next_failed(bad)
  \/ \E bad \in SUBSET DOMAIN shards : prev_failed(bad)

\* two shards
InitIterFailed == InitIter /\ Len(shards) = 2

SpecIterFailed == InitIterFailed /\ [][NextIter \/ NextIterFailed]_vars

\* C34: when a sub-iterator that a call of seek_to_first, seek_to_last,
\* lower_bound, upper_bound, next or prev moved has a status that is not ok,
\* the call returns an error.
C34_ErrorSurfaced == io_error # {} => it_ret < 0

----------------------------------------------------------------------------
(* ShardMergeIteratorImpl over shards that hold the same key                *)

\* two shards, each with any of the keys: a key may be in both
InitIterTies ==
  \E s1, s2 \in SUBSET IterKeys :
    /\ shards = <<SortedKeys(s1), SortedKeys(s2)>>
    /\ iters = <<1, 2>>
    /\ pos = <<0, 0>>
    /\ it_ret = 0
    /\ scan = "none"
    /\ seen = <<>>
    /\ np = NoNextPrev
    /\ dbiter = 0
    /\ io_error = {}
    /\ TxnIdle
    /\ CompactIdle
    /\ OpenIdle
    /\ merge_ops = <<>>

SpecIterTies == InitIterTies /\ [][NextIter]_vars

\* C35: after every seek, next and prev that returned success, among the
\* sub-iterators that hold the smallest current key the one with the lowest
\* partition index is at position 0.
C35_TieByIndex ==
  (it_ret = 0 /\ valid) =>
    \A cf \in DOMAIN pos : (IsValid(cf, pos) /\ Key(cf, pos) = key) => iters[1] <= cf

----------------------------------------------------------------------------
(* What parse_sharding_def accepts                                          *)

\* C36: every column that a successful parse_sharding_def returns has
\* shard_cnt >= 1 and hash_l < hash_h, and no two columns of one definition
\* have the same name: texts such as name(0), name(2,10-5) or the same name
\* twice are rejected.
C36_RecordsValid ==
  (parse_out.stage >= 1 /\ parse_out.first.ok) =>
    LET def == parse_out.first.sharding_def
    IN /\ \A i \in 1..Len(def) : def[i].shard_cnt >= 1 /\ def[i].hash_l < def[i].hash_h
       /\ \A i, j \in 1..Len(def) : def[i].name = def[j].name => i = j

----------------------------------------------------------------------------
(* The operator of a dedicated column family and the router's choice        *)

\* the operator MergeOperatorRouter::Merge takes for a key of prefix
RouterSelected(prefix) ==
  LET selected(i) == IF i = 0 THEN "none" ELSE merge_ops[i][2]
  IN selected(RouterLoop(merge_ops, combine_strings(prefix, <<97>>), 1))

\* C37: the operator bound to the column families of a dedicated prefix
\* when they are created is the operator the router of the default column
\* family selects for the prefix: the first one registered for it, also when
\* it was registered more than once, and none without a registration.
C37_SameOperator ==
  opc = "opened" =>
    \A p \in DOMAIN cf_merge_operator : cf_merge_operator[p] = RouterSelected(p)

----------------------------------------------------------------------------
(* compact_queue_lock: the callers of compact_range_async, the compaction   *)
(* thread and close() take the mutex one at a time                          *)

l_unlock_Skipped(owner) == owner

\* l.unlock() of compact_thread_entry, before the compaction call
l_unlock(owner) == "free"

\* std::lock_guard l(compact_queue_lock) of caller c in
\* compact_range_async(start, end)
async_lock(c, start, end) ==
  /\ ~crashed
  /\ rpc[c] = "idle"
  /\ compact_queue_lock = "free"
  /\ Len(async_queue(compact_queue, start, end)) <= MaxQueue
  /\ compact_queue_lock' = c
  /\ rpc' = [rpc EXCEPT ![c] = "locked"]
  /\ rarg' = [rarg EXCEPT ![c] = <<start, end>>]
  /\ UNCHANGED <<compact_queue, compact_queue_stop, thread_started, wpc, wrange,
                 wcall, cpc, logger, db, crashed, creq, chist, nthreads>>
  /\ UNCHANGED <<iter_vars, txn_vars, open_vars>>

\* caller c from the first statement of compact_range_async after the
\* lock_guard to its return; compact_thread.create() starts a thread
async_locked(c) ==
  /\ rpc[c] = "locked"
  /\ async_critical(rarg[c][1], rarg[c][2])
  /\ compact_queue_lock' = "free"
  /\ rpc' = [rpc EXCEPT ![c] = "idle"]
  /\ rarg' = [rarg EXCEPT ![c] = <<>>]
  /\ nthreads' = IF thread_started' /\ ~thread_started THEN nthreads + 1 ELSE nthreads

\* the compaction thread takes the mutex: std::unique_lock l at its entry,
\* l.lock() after a compaction call, or the return of wait(l)
thread_lock ==
  /\ ~crashed
  /\ wpc = "top"
  /\ compact_queue_lock = "free"
  /\ compact_queue_lock' = "thread"
  /\ creq' = NoRequest
  /\ UNCHANGED <<compact_queue, compact_queue_stop, thread_started, wpc, wrange,
                 wcall, cpc, logger, db, crashed, chist, rpc, rarg, nthreads>>
  /\ UNCHANGED <<iter_vars, txn_vars, open_vars>>

\* one turn of the while loop of compact_thread_entry: it ends with
\* l.unlock() before the compaction call, with wait(l), which releases the
\* mutex, or with the return of the thread
thread_locked ==
  /\ compact_queue_lock = "thread"
  /\ thread_critical
  /\ compact_queue_lock' = IF wpc' = "compacting" THEN l_unlock(compact_queue_lock)
                           ELSE "free"
  /\ nthreads' = IF wpc' = "done" THEN nthreads - 1 ELSE nthreads
  /\ UNCHANGED <<rpc, rarg>>

\* close(): compact_queue_lock.lock()
close_lock ==
  /\ ~crashed
  /\ cpc = "open"
  /\ compact_queue_lock = "free"
  /\ compact_queue_lock' = "close"
  /\ creq' = NoRequest
  /\ UNCHANGED <<compact_queue, compact_queue_stop, thread_started, wpc, wrange,
                 wcall, cpc, logger, db, crashed, chist, rpc, rarg, nthreads>>
  /\ UNCHANGED <<iter_vars, txn_vars, open_vars>>

\* close() up to compact_queue_lock.unlock(), on either branch
close_locked ==
  /\ compact_queue_lock = "close"
  /\ close_critical
  /\ compact_queue_lock' = "free"
  /\ UNCHANGED <<rpc, rarg, nthreads>>

NextLock ==
  \/ \E c \in Callers, r \in CompactRanges : async_lock(c, r[1], r[2])
  \/ \E c \in Callers : async_locked(c)
  \/ thread_lock
  \/ thread_locked
  \/ compact_return
  \/ spurious_wakeup
  \/ close_lock
  \/ close_locked
  \/ close_join
  \/ close_unregister
  \/ close_destroy_handles
  \/ close_delete_db

SpecLock == InitCompact /\ [][NextLock]_vars

\* C38: in every interleaving of the callers of compact_range_async, the
\* compaction thread and close(): at most one compaction thread exists and
\* the compaction call in progress, if any, is that thread's; whoever is
\* between the lock and the unlock of compact_range_async holds
\* compact_queue_lock; the queue changes only in a step of the holder of
\* compact_queue_lock; and the thread does not hold compact_queue_lock while
\* its compaction call runs.
C38_OneThreadUnderLock ==
  /\ [](nthreads <= 1)
  /\ [](wpc = "compacting" => (nthreads = 1 /\ compact_queue_lock # "thread"))
  /\ [](\A c \in Callers : rpc[c] = "locked" => compact_queue_lock = c)
  /\ [][compact_queue' # compact_queue => compact_queue_lock # "free"]_vars

C38_Witness ==
  /\ wpc = "compacting"
  /\ nthreads = 1
  /\ compact_queue_lock = "caller1"
  /\ rpc = [c \in Callers |-> IF c = "caller1" THEN "locked" ELSE "idle"]
  /\ compact_queue # <<>>
  /\ ~crashed

----------------------------------------------------------------------------
(* close() and the compaction thread under fair scheduling                  *)

\* no compact_range_async is in progress once close() has taken the mutex:
\* the callers of the store have stopped before they call close()
NextLockFair ==
  \/ \E c \in Callers, r \in CompactRanges : cpc = "open" /\ async_lock(c, r[1], r[2])
  \/ \E c \in Callers : async_locked(c)
  \/ thread_lock
  \/ thread_locked
  \/ compact_return
  \/ spurious_wakeup
  \/ close_lock
  \/ close_locked
  \/ close_join
  \/ close_unregister
  \/ close_destroy_handles
  \/ close_delete_db

\* every thread that can run does run, and a thread that asks for the mutex
\* gets it although others keep taking it
SpecLockFair ==
  /\ InitCompact
  /\ [][NextLockFair]_vars
  /\ WF_vars(\E c \in Callers : async_locked(c))
  /\ SF_vars(thread_lock)
  /\ WF_vars(thread_locked)
  /\ WF_vars(compact_return)
  /\ WF_vars(close_locked)
  /\ WF_vars(close_join)
  /\ WF_vars(close_unregister)
  /\ WF_vars(close_destroy_handles)
  /\ WF_vars(close_delete_db)

\* C39: under fair scheduling, once close() has set compact_queue_stop the
\* compaction thread leaves compact_thread_entry, whether it was waiting,
\* about to take the mutex or compacting; from then on no compaction call
\* starts, so the thread finishes at most the call it is running and the
\* entries still queued are never issued; and close() returns.
C39_CloseTerminates ==
  /\ compact_queue_stop ~> (wpc = "done" /\ nthreads = 0)
  /\ compact_queue_stop ~> (cpc = "closed")
  /\ [][compact_queue_stop => (wpc' = "compacting" => wpc = "compacting")]_vars

C39_Witness ==
  /\ cpc = "closed"
  /\ compact_queue_stop
  /\ wpc = "done"
  /\ nthreads = 0
  /\ compact_queue_lock = "free"
  /\ compact_queue # <<>>

----------------------------------------------------------------------------
(* Equal entries in the compaction queue                                    *)

\* C40: the compaction queue never holds two entries with the same (start,
\* end), whatever compact_range_async calls and pops of the thread came
\* before; and a request equal to a queued entry leaves the queue as it was.
C40_NoEqualEntries ==
  /\ \A i, j \in 1..Len(compact_queue) : compact_queue[i] = compact_queue[j] => i = j
  /\ (creq # NoRequest /\ Count(creq.before, creq.range) > 0) => compact_queue = creq.before

====
